---- MODULE Spec2Model ----
(***************************************************************************)
(* A model of the CESR stream decoder of kentbull/cesr-decoder:            *)
(*   - the byte/text codecs (Hex, Base64, Utf8, readInt),                  *)
(*   - the code table protocol (CesrSchemaProtocol, CesrSchemaCodeTable),  *)
(*   - the parser (getCesrValue, getCesrFrame, getTextFrame, getJsonFrame),*)
(*   - DecoderState and the generator CesrDecoder.values.                  *)
(* Bytes and characters are numbers (a character is its code point); a     *)
(* string or a Uint8Array is a sequence of them.                           *)
(***************************************************************************)
EXTENDS Integers, Sequences, FiniteSets, TLC

VARIABLES
    input,      \* the Uint8Array handed to CesrDecoder.values
    names,      \* the table names the session's CesrSchemaProtocol was loaded with
    frames,     \* DecoderState.currentFrame and its .next chain, top first
    start,      \* DecoderState.start
    pc,         \* position of the generator: "start", "yielded", "done", "error"
    length,     \* the local `length` of values(), pending at the yield
    serial,     \* the local `serial` of values()
    version,    \* the local `version` of values()
    last,       \* what the latest step did: the yielded value, the hook, the popped group
    err,        \* the exception that ended the generator
    out,        \* the values yielded so far (the first MaxYield of them)
    passes,     \* the passes of the while loop of values() so far, modulo 2
    other,      \* a second session over the same input and registry: its own
                \* DecoderState, generator locals and yielded values
    call        \* a call of a library function outside a session: the functions
                \* to apply in turn, the argument and each result, the exception

vars ==
    <<input, names, frames, start, pc, length, serial, version, last, err, out, passes,
      other, call>>

----------------------------------------------------------------------------
(* Characters                                                              *)

Digits == << "0", "1", "2", "3", "4", "5", "6", "7", "8", "9" >>

Upper ==
    << "A", "B", "C", "D", "E", "F", "G", "H", "I", "J", "K", "L", "M",
       "N", "O", "P", "Q", "R", "S", "T", "U", "V", "W", "X", "Y", "Z" >>

Lower ==
    << "a", "b", "c", "d", "e", "f", "g", "h", "i", "j", "k", "l", "m",
       "n", "o", "p", "q", "r", "s", "t", "u", "v", "w", "x", "y", "z" >>

IndexIn(seq, c) == CHOOSE i \in 1..Len(seq) : seq[i] = c

\* the code point of an ASCII character
Ord(c) ==
    IF \E i \in 1..Len(Digits) : Digits[i] = c THEN 47 + IndexIn(Digits, c)
    ELSE IF \E i \in 1..Len(Upper) : Upper[i] = c THEN 64 + IndexIn(Upper, c)
    ELSE IF \E i \in 1..Len(Lower) : Lower[i] = c THEN 96 + IndexIn(Lower, c)
    ELSE CASE c = "-" -> 45
           [] c = "_" -> 95
           [] c = "{" -> 123
           [] c = "}" -> 125
           [] c = ":" -> 58
           [] c = "\"" -> 34

\* the string written as a tuple of one-character strings, as code points
Str(s) == [i \in 1..Len(s) |-> Ord(s[i])]

\* the element of a set of one element
Only(S) == CHOOSE x \in S : TRUE

Min(a, b) == IF a < b THEN a ELSE b
Max(a, b) == IF a > b THEN a ELSE b

\* Array.prototype.slice / String.prototype.slice with 0 <= from, 0 <= to
Slice(s, from, to) == SubSeq(s, Min(from, Len(s)) + 1, Min(to, Len(s)))

\* slice(from) to the end
SliceFrom(s, from) == SubSeq(s, Min(from, Len(s)) + 1, Len(s))

IsPrefix(p, s) == Len(p) <= Len(s) /\ SubSeq(s, 1, Len(p)) = p

\* TextDecoder.decode: an ASCII byte is its character; the bytes above 127 the
\* model uses (0x80, 0xA0, 0xC0, 0xFF) never begin or continue a valid
\* sequence on their own, and each decodes to U+FFFD
Utf8Decode(bytes) == [i \in 1..Len(bytes) |-> IF bytes[i] < 128 THEN bytes[i] ELSE 65533]

RECURSIVE Utf8Encode(_)
\* TextEncoder.encode: an ASCII character is its byte, U+FFFD is EF BF BD
Utf8Encode(value) ==
    IF value = << >> THEN << >>
    ELSE (IF Head(value) < 128 THEN << Head(value) >> ELSE << 239, 191, 189 >>)
             \o Only({ Utf8Encode(rest) : rest \in { Tail(value) } })

----------------------------------------------------------------------------
(* 32-bit integer arithmetic of the JavaScript bit operators                *)

Pow2(n) == 2 ^ n

\* the int32 whose low 32 bits are low * 2^k, for 0 <= low < 2^(32-k)
Int32Of(low, k) ==
    IF low >= Pow2(31 - k) THEN (low - Pow2(32 - k)) * Pow2(k) ELSE low * Pow2(k)

\* (r << k) on int32 r, 0 < k < 31: the low 32-k bits of r move up, the top
\* bit of the result is the sign
ShiftLeft32(r, k) == Only({ Int32Of(low, k) : low \in { r % Pow2(32 - k) } })

----------------------------------------------------------------------------
(* Hex                                                                     *)

\* String.prototype.toUpperCase on one ASCII character
ToUpperCase(ch) == IF ch >= 97 /\ ch <= 122 THEN ch - 32 ELSE ch

\* Hex.valueOf: index in "0123456789ABCDEF", -1 where the code throws
HexValueOf(ch) ==
    IF ch >= 48 /\ ch <= 57 THEN ch - 48
    ELSE IF ch >= 65 /\ ch <= 70 THEN ch - 55
    ELSE -1

RECURSIVE HexToIntFrom(_, _, _)
\* one pass of the loop of Hex.toInt for the digit d of value[i]
HexToIntStep(value, i, result, d) ==
    IF d = -1 THEN [ok |-> FALSE, value |-> 0]
    ELSE Only({ HexToIntFrom(value, i + 1, r) : r \in { ShiftLeft32(result, 4) + d } })

\* the loop of Hex.toInt from the character i on
HexToIntFrom(value, i, result) ==
    IF i > Len(value) THEN [ok |-> TRUE, value |-> result]
    ELSE Only({ HexToIntStep(value, i, result, d) :
                  d \in { HexValueOf(ToUpperCase(value[i])) } })

\* Hex.toInt
HexToInt(value) == HexToIntFrom(value, 1, 0)

----------------------------------------------------------------------------
(* Base64                                                                  *)

\* Base64.valueOf: index in the URL-safe alphabet, -1 where the code throws
Base64ValueOf(ch) ==
    IF ch >= 65 /\ ch <= 90 THEN ch - 65
    ELSE IF ch >= 97 /\ ch <= 122 THEN ch - 71
    ELSE IF ch >= 48 /\ ch <= 57 THEN ch + 4
    ELSE IF ch = Ord("-") THEN 62
    ELSE IF ch = Ord("_") THEN 63
    ELSE -1

RECURSIVE Base64ToIntFrom(_, _, _)
\* one pass of the loop of Base64.toInt for the digit d of value[i]
Base64ToIntStep(value, i, result, d) ==
    IF d = -1 THEN [ok |-> FALSE, value |-> 0]
    ELSE Only({ Base64ToIntFrom(value, i + 1, r) : r \in { ShiftLeft32(result, 6) + d } })

\* the loop of Base64.toInt from the character i on
Base64ToIntFrom(value, i, result) ==
    IF i > Len(value) THEN [ok |-> TRUE, value |-> result]
    ELSE Only({ Base64ToIntStep(value, i, result, d) : d \in { Base64ValueOf(value[i]) } })

\* Base64.toInt
Base64ToInt(value) == Base64ToIntFrom(value, 1, 0)

----------------------------------------------------------------------------
(* Errors: the exception class and the place that throws it                *)

Throw(type, at) == [ok |-> FALSE, err |-> [type |-> type, at |-> at]]

----------------------------------------------------------------------------
(* Hex.encode and Hex.decode                                             *)

\* byte.toString(16).padStart(2, '0'): two lower-case digits
HexDigitChar(v) == IF v < 10 THEN 48 + v ELSE 87 + v

RECURSIVE HexEncode(_)
\* Hex.encode
HexEncode(uint8Array) ==
    IF uint8Array = << >> THEN << >>
    ELSE << HexDigitChar(Head(uint8Array) \div 16), HexDigitChar(Head(uint8Array) % 16) >>
             \o Only({ HexEncode(rest) : rest \in { Tail(uint8Array) } })

\* String.prototype.substring(a, b) with 0 <= a, 0 <= b: the arguments are
\* clamped to the length and swapped when the first is the greater
Substring(s, a, b) ==
    SubSeq(s, Min(Min(a, b), Len(s)) + 1, Min(Max(a, b), Len(s)))

RECURSIVE HexPrefixValue(_, _, _)
\* parseInt(s, 16) from the character i on, for a string with no white space,
\* sign or 0x before its digits: the digits up to the first character that is
\* none, NaN when there is no digit
HexPrefixValue(s, i, result) ==
    IF i > Len(s) \/ HexValueOf(ToUpperCase(s[i])) = -1
    THEN [nan |-> i = 1, value |-> result]
    ELSE Only({ HexPrefixValue(s, i + 1, r) :
                  r \in { result * 16 + HexValueOf(ToUpperCase(s[i])) } })

ParseInt16(s) == HexPrefixValue(s, 1, 0)

\* the element a Uint8Array stores for a number: 0 for NaN, else modulo 256
ToUint8(n) == IF n.nan THEN 0 ELSE n.value % 256

\* the element Hex.decode stores for the loop index i
HexDecodeAt(hexString, i) ==
    Only({ ToUint8(ParseInt16(pair)) : pair \in { Substring(hexString, i, 2) } })

\* Hex.decode
HexDecode(hexString) ==
    IF Len(hexString) % 2 # 0 THEN Throw("Error", "Invalid hex string")
    ELSE [ok |-> TRUE,
          bytes |-> [k \in 1..(Len(hexString) \div 2) |-> HexDecodeAt(hexString, 2 * (k - 1))]]

----------------------------------------------------------------------------
(* The code tables (the data CesrTables.load() returns and the lookup of   *)
(* CesrContext), a compact configuration in the shape of the schema        *)

SpecM ==
    [ key |-> Str(<<"M">>), name |-> "Short", table_type |-> {"FixedSize"},
      default_size |-> [hs |-> 1, ss |-> 0, ls |-> 0],
      sizes |-> [hs |-> 1, ss |-> 0, fs |-> 4, ls |-> 0] ]

SpecN ==
    [ key |-> Str(<<"N">>), name |-> "Long", table_type |-> {"FixedSize"},
      default_size |-> [hs |-> 1, ss |-> 0, ls |-> 0],
      sizes |-> [hs |-> 1, ss |-> 0, fs |-> 8, ls |-> 0] ]

Spec4A ==
    [ key |-> Str(<<"4", "A">>), name |-> "StrB64_L0", table_type |-> {"VariableSize"},
      default_size |-> [hs |-> 2, ss |-> 2, ls |-> 0],
      sizes |-> [hs |-> 2, ss |-> 2, ls |-> 0] ]

\* a fixed-size code of two characters
Spec0H ==
    [ key |-> Str(<<"0", "H">>), name |-> "Long", table_type |-> {"FixedSize"},
      default_size |-> [hs |-> 2, ss |-> 0, ls |-> 0],
      sizes |-> [hs |-> 2, ss |-> 0, fs |-> 8, ls |-> 0] ]

\* fixed-size codes with one and with two lead bytes
Spec2AAA ==
    [ key |-> Str(<<"2", "A", "A", "A">>), name |-> "TBD1", table_type |-> {"FixedSize"},
      default_size |-> [hs |-> 4, ss |-> 0, ls |-> 1],
      sizes |-> [hs |-> 4, ss |-> 0, fs |-> 8, ls |-> 1] ]

Spec3AAA ==
    [ key |-> Str(<<"3", "A", "A", "A">>), name |-> "TBD2", table_type |-> {"FixedSize"},
      default_size |-> [hs |-> 4, ss |-> 0, ls |-> 2],
      sizes |-> [hs |-> 4, ss |-> 0, fs |-> 8, ls |-> 2] ]

\* a variable-size code with a code of eight characters
Spec7AAA ==
    [ key |-> Str(<<"7", "A", "A", "A">>), name |-> "StrB64_Big_L0",
      table_type |-> {"VariableSize"},
      default_size |-> [hs |-> 4, ss |-> 4, ls |-> 0],
      sizes |-> [hs |-> 4, ss |-> 4, ls |-> 0] ]

SpecIdxA ==
    [ key |-> Str(<<"A">>), name |-> "Ed25519_Sig", table_type |-> {"Indexer", "FixedSize"},
      default_size |-> [hs |-> 1, ss |-> 1, os |-> 0],
      sizes |-> [hs |-> 1, ss |-> 1, fs |-> 8, ls |-> 0] ]

\* -A: a group of count values decoded with the indexer tables
SpecDashA ==
    [ key |-> Str(<<"-", "A">>), name |-> "ControllerIdxSigs", table_type |-> {"Counter"},
      default_size |-> [hs |-> 2, ss |-> 2],
      sizes |-> [hs |-> 2, ss |-> 2, fs |-> 4, ls |-> 0],
      counter |-> [count |-> "*1", context |-> <<"indexer">>] ]

\* -C: a group of 2*count values, no context of its own
SpecDashC ==
    [ key |-> Str(<<"-", "C">>), name |-> "NonTransReceiptCouples", table_type |-> {"Counter"},
      default_size |-> [hs |-> 2, ss |-> 2],
      sizes |-> [hs |-> 2, ss |-> 2, fs |-> 4, ls |-> 0],
      counter |-> [count |-> "*2"] ]

\* -I: seal source triples
SpecDashI ==
    [ key |-> Str(<<"-", "I">>), name |-> "SealSourceTriples", table_type |-> {"Counter"},
      default_size |-> [hs |-> 2, ss |-> 2],
      sizes |-> [hs |-> 2, ss |-> 2, fs |-> 4, ls |-> 0],
      counter |-> [count |-> "*3"] ]

\* -V with a counter that declares no count: a frame
SpecDashVFrame ==
    [ key |-> Str(<<"-", "V">>), name |-> "AttachedMaterialQuadlets", table_type |-> {"Counter"},
      default_size |-> [hs |-> 2, ss |-> 2],
      sizes |-> [hs |-> 2, ss |-> 2, fs |-> 4, ls |-> 0],
      counter |-> << >> ]

\* -V with a counter that declares a count: a group
SpecDashVGroup ==
    [ key |-> Str(<<"-", "V">>), name |-> "AttachedMaterialQuadlets", table_type |-> {"Counter"},
      default_size |-> [hs |-> 2, ss |-> 2],
      sizes |-> [hs |-> 2, ss |-> 2, fs |-> 4, ls |-> 0],
      counter |-> [count |-> "*1"] ]

\* -V with no counter entry: a leaf
SpecDashVLeaf ==
    [ key |-> Str(<<"-", "V">>), name |-> "AttachedMaterialQuadlets", table_type |-> {"Counter"},
      default_size |-> [hs |-> 2, ss |-> 2],
      sizes |-> [hs |-> 2, ss |-> 2, fs |-> 4, ls |-> 0] ]

\* -0V: the big frame
SpecDash0V ==
    [ key |-> Str(<<"-", "0", "V">>), name |-> "BigAttachedMaterialQuadlets",
      table_type |-> {"Counter"},
      default_size |-> [hs |-> 3, ss |-> 5],
      sizes |-> [hs |-> 3, ss |-> 5, fs |-> 8, ls |-> 0],
      counter |-> << >> ]

\* the tables by name
Tables(name) ==
    CASE name = "matter"   -> << SpecM, SpecN, Spec4A, Spec2AAA, Spec3AAA, Spec7AAA, Spec0H >>
      [] name = "indexer"  -> << SpecIdxA >>
      [] name = "counter"  -> << SpecDashA, SpecDashC, SpecDashI, SpecDashVFrame, SpecDash0V >>
      [] name = "counterG" -> << SpecDashA, SpecDashC, SpecDashI, SpecDashVGroup, SpecDash0V >>
      [] name = "counterL" -> << SpecDashA, SpecDashC, SpecDashI, SpecDashVLeaf, SpecDash0V >>

RECURSIVE Context(_)
\* CesrTables.context(...names): the named tables together
Context(tableNames) ==
    IF tableNames = << >> THEN << >>
    ELSE Tables(Head(tableNames)) \o Context(Tail(tableNames))

\* the first entry of the tables ctx whose code the selector begins with, as a
\* sequence of one entry, << >> for null
LookupIn(ctx, selector) ==
    IF \A i \in 1..Len(ctx) : ~IsPrefix(ctx[i].key, selector) THEN << >>
    ELSE << ctx[CHOOSE i \in 1..Len(ctx) :
                  /\ IsPrefix(ctx[i].key, selector)
                  /\ \A j \in 1..(i - 1) : ~IsPrefix(ctx[j].key, selector)] >>

\* the lists of table names a protocol or a group's context is made of
ContextNames ==
    { <<"matter", "counter">>, <<"matter", "counterG">>, <<"matter", "counterL">>,
      <<"indexer">> }

\* the contexts CesrTables.context builds, by their names
Contexts == [tableNames \in ContextNames |-> Context(tableNames)]

\* CesrContext.lookup(selector)
Lookup(tableNames, selector) == LookupIn(Contexts[tableNames], selector)

----------------------------------------------------------------------------
(* CesrSchemaProtocol and CesrSchemaCodeTable                              *)

\* CesrSchemaProtocol.getSelectorSize
GetSelectorSize(selector) == 8

\* new CesrSchemaCodeTable for the entry found, the throw for null
CodeTableOf(spec) ==
    IF spec = << >> THEN Throw("UnknownCodeError", "getCodeTable")
    ELSE [ok |-> TRUE, table |-> spec[1]]

\* CesrSchemaProtocol.getCodeTable
GetCodeTable(protocol, selector) ==
    Only({ CodeTableOf(spec) : spec \in { Lookup(protocol, selector) } })

IsFixedSize(spec) == "FixedSize" \in spec.table_type
IsVariableSize(spec) == "VariableSize" \in spec.table_type
IsIndexer(spec) == "Indexer" \in spec.table_type
IsCounter(spec) == "Counter" \in spec.table_type
IsVersion(spec) == "Version" \in spec.table_type

\* CesrSchemaCodeTable.codeSize
CodeSize(spec) ==
    spec.default_size.hs
        + (IF "ss" \in DOMAIN spec.default_size THEN spec.default_size.ss ELSE 0)

\* the count of a counter code with a declared multiplier, -1 for an unknown one
CountOf(multiplier, digits) ==
    CASE multiplier = "*1" -> digits * 1
      [] multiplier = "*2" -> digits * 2
      [] multiplier = "*3" -> digits * 3
      [] multiplier = "*4" -> digits * 4
      [] multiplier = "*2+1" -> digits * 2 + 1
      [] OTHER -> -1

HasCount(spec) == "counter" \in DOMAIN spec /\ "count" \in DOMAIN spec.counter

\* header.count of a counter code, header.quadlets for one with no multiplier
HeaderCount(spec, n) ==
    IF HasCount(spec) THEN CountOf(spec.counter.count, n) ELSE n

\* the optional fields a header carries; the others are undefined
DefinedFields(spec, hasDigits, hasLead, os) ==
    (IF hasDigits THEN {"digits"} ELSE {})
        \cup (IF hasLead THEN {"leadBytes"} ELSE {})
        \cup (IF IsVariableSize(spec) THEN {"size"} ELSE {})
        \cup (IF IsCounter(spec) THEN {"count"} ELSE {})
        \cup (IF IsCounter(spec) /\ ~HasCount(spec) THEN {"quadlets"} ELSE {})
        \cup (IF IsIndexer(spec) THEN {"index"} ELSE {})
        \cup (IF IsIndexer(spec) /\ os > 0 THEN {"ondex"} ELSE {})

\* the header of mapCodeHeader; n is Base64.toInt(header.digits), read by the
\* branches that need it (needInt)
BuildHeader(spec, code, hs, hasDigits, hasLead, needInt, digits, os, n) ==
    IF needInt /\ ~hasDigits THEN Throw("TypeError", "Base64.toInt")
    ELSE IF needInt /\ ~n.ok THEN Throw("Error", "Base64.valueOf")
    ELSE IF IsCounter(spec) /\ HeaderCount(spec, n.value) = -1
    THEN Throw("UnknownCodeError", "mapCodeHeader")
    ELSE [ ok |-> TRUE,
           header |->
             [ variant |-> "code",
               table |-> spec,
               value |-> Slice(code, 0, CodeSize(spec)),
               selector |-> Slice(code, 0, hs),
               digits |-> digits,
               typeName |-> spec.name,
               leadBytes |-> IF hasLead THEN spec.default_size.ls ELSE 0,
               size |-> IF IsVariableSize(spec) THEN n.value ELSE 0,
               count |-> IF IsCounter(spec) THEN HeaderCount(spec, n.value) ELSE 0,
               quadlets |-> IF IsCounter(spec) /\ ~HasCount(spec) THEN n.value ELSE 0,
               index |-> IF ~IsIndexer(spec) THEN 0
                         ELSE IF os > 0 THEN Base64ToInt(Slice(digits, 0, os)).value
                         ELSE n.value,
               ondex |-> IF IsIndexer(spec) /\ os > 0
                         THEN Base64ToInt(SliceFrom(digits, os)).value ELSE 0,
               serial |-> << >>,
               version |-> << >>,
               defined |-> DefinedFields(spec, hasDigits, hasLead, os) ] ]

\* mapCodeHeader once header.digits is known
MapCodeDigits(spec, code, hasDigits, digits) ==
    Only({ BuildHeader(spec, code, spec.default_size.hs, hasDigits,
                       (IsFixedSize(spec) \/ IsVariableSize(spec))
                           /\ "ls" \in DOMAIN spec.default_size,
                       IsVariableSize(spec) \/ IsCounter(spec) \/ IsIndexer(spec),
                       digits,
                       IF "os" \in DOMAIN spec.default_size THEN spec.default_size.os ELSE 0,
                       n) :
             n \in { Base64ToInt(digits) } })

\* CesrSchemaCodeTable.mapCodeHeader
MapCodeHeader(spec, code) ==
    Only({ MapCodeDigits(spec, code, "ss" \in DOMAIN spec.default_size, digits) :
             digits \in { IF "ss" \in DOMAIN spec.default_size
                          THEN Slice(code, spec.default_size.hs, CodeSize(spec))
                          ELSE << >> } })

\* CesrDerivationCode.length / CesrVersionHeader.length
HeaderLength(header) == Len(header.value)

\* getTotalLength with the size of a variable-size value counted in characters
GetTotalLengthInChars(spec, code) ==
    IF IsFixedSize(spec)
    THEN IF "sizes" \in DOMAIN spec /\ "fs" \in DOMAIN spec.sizes
         THEN [ok |-> TRUE, total |-> spec.sizes.fs]
         ELSE Throw("UnknownCodeError", "getTotalLength")
    ELSE IF IsVariableSize(spec)
    THEN [ok |-> TRUE, total |-> CodeSize(spec) + code.size]
    ELSE [ok |-> TRUE, total |-> CodeSize(spec)]

\* CesrSchemaCodeTable.getTotalLength
GetTotalLength(spec, code) ==
    IF IsFixedSize(spec)
    THEN IF "sizes" \in DOMAIN spec /\ "fs" \in DOMAIN spec.sizes
         THEN [ok |-> TRUE, total |-> spec.sizes.fs]
         ELSE Throw("UnknownCodeError", "getTotalLength")
    ELSE IF IsVariableSize(spec)
    THEN [ok |-> TRUE, total |-> CodeSize(spec) + 4 * code.size]
    ELSE [ok |-> TRUE, total |-> CodeSize(spec)]

\* CesrSchemaProtocol.isFrame
IsFrame(code) ==
    IsCounter(code.table) /\ "counter" \in DOMAIN code.table
        /\ ~("count" \in DOMAIN code.table.counter)

\* CesrSchemaProtocol.isGroup
IsGroup(code) ==
    IsCounter(code.table) /\ "counter" \in DOMAIN code.table
        /\ "count" \in DOMAIN code.table.counter

\* CesrSchemaProtocol.hasContext
HasContext(code) == IsGroup(code) /\ "context" \in DOMAIN code.table.counter

\* CesrSchemaProtocol.getContext: the protocol of the context's tables
GetContext(code) == code.table.counter.context

----------------------------------------------------------------------------
(* Base64.decodeBase64Url and readInt                                      *)

\* the value of a character of the standard or the URL-safe alphabet as atob
\* sees it after the two replace() calls ('-' became '+', '_' became '/'; a
\* '+' or '/' of the input is left as it is), -1 for any other character
AtobValueOf(ch) ==
    IF ch = 43 \/ ch = 47 THEN (IF ch = 43 THEN 62 ELSE 63) ELSE Base64ValueOf(ch)

IsAsciiWhitespace(ch) == ch \in {9, 10, 12, 13, 32}

\* the string without its ASCII whitespace
StripWhitespace(s) == SelectSeq(s, LAMBDA ch : ~IsAsciiWhitespace(ch))

\* n times the element ch
Repeat(ch, n) == [i \in 1..n |-> ch]

\* one or two trailing '=' removed from a string whose length is a multiple of 4
StripPadding(s) ==
    IF Len(s) % 4 # 0 \/ s = << >> THEN s
    ELSE IF s[Len(s)] # 61 THEN s
    ELSE IF Len(s) >= 2 /\ s[Len(s) - 1] = 61 THEN SubSeq(s, 1, Len(s) - 2)
    ELSE SubSeq(s, 1, Len(s) - 1)

\* the three bytes of four alphabet characters
Quad(a, b, c, d) == a * 262144 + b * 4096 + c * 64 + d

QuadBytes(n) == << n \div 65536, (n \div 256) % 256, n % 256 >>

\* the two bytes of three alphabet characters
TripleBytes(n) == << n \div 1024, (n \div 4) % 256 >>

RECURSIVE AtobBytes(_)
\* the bytes of a run of alphabet characters, the bits left over discarded
AtobBytes(s) ==
    IF Len(s) >= 4
    THEN QuadBytes(Quad(AtobValueOf(s[1]), AtobValueOf(s[2]), AtobValueOf(s[3]),
                        AtobValueOf(s[4])))
             \o Only({ AtobBytes(rest) : rest \in { SubSeq(s, 5, Len(s)) } })
    ELSE IF Len(s) = 3
    THEN TripleBytes(AtobValueOf(s[1]) * 4096 + AtobValueOf(s[2]) * 64 + AtobValueOf(s[3]))
    ELSE IF Len(s) = 2
    THEN << (AtobValueOf(s[1]) * 64 + AtobValueOf(s[2])) \div 16 >>
    ELSE << >>

\* the decoding of a string with its whitespace and padding removed
AtobStripped(s) ==
    IF Len(s) % 4 = 1 \/ \E i \in 1..Len(s) : AtobValueOf(s[i]) = -1
    THEN Throw("InvalidCharacterError", "atob")
    ELSE [ok |-> TRUE, bytes |-> AtobBytes(s)]

\* atob (forgiving-base64 decode)
Atob(data) == Only({ AtobStripped(s) : s \in { StripPadding(StripWhitespace(data)) } })

\* Base64.decodeBase64Url
DecodeBase64Url(array) ==
    Atob(array \o Repeat(61, IF Len(array) % 4 > 0 THEN 4 - (Len(array) % 4) ELSE 0))

\* the character btoa writes for six bits
BtoaChar(v) ==
    IF v < 26 THEN 65 + v
    ELSE IF v < 52 THEN 71 + v
    ELSE IF v < 62 THEN v - 4
    ELSE IF v = 62 THEN 43 ELSE 47

\* the four characters of three bytes
BtoaQuad(n) ==
    << BtoaChar(n \div 262144), BtoaChar((n \div 4096) % 64), BtoaChar((n \div 64) % 64),
       BtoaChar(n % 64) >>

RECURSIVE Btoa(_)
\* btoa of a binary string of bytes: '=' fills the last group
Btoa(s) ==
    IF Len(s) >= 3
    THEN BtoaQuad(s[1] * 65536 + s[2] * 256 + s[3])
             \o Only({ Btoa(rest) : rest \in { SubSeq(s, 4, Len(s)) } })
    ELSE IF Len(s) = 2
    THEN SubSeq(BtoaQuad(s[1] * 65536 + s[2] * 256), 1, 3) \o <<61>>
    ELSE IF Len(s) = 1
    THEN SubSeq(BtoaQuad(s[1] * 65536), 1, 2) \o <<61, 61>>
    ELSE << >>

\* .replace(/\+/g, '-').replace(/\//g, '_')
UrlSafe(s) == [i \in 1..Len(s) |-> IF s[i] = 43 THEN 45 ELSE IF s[i] = 47 THEN 95 ELSE s[i]]

\* .replace(/=+$/, '')
StripEquals(s) == SelectSeq(s, LAMBDA ch : ch # 61)

\* Base64.encodeBase64Url(array, strip)
EncodeBase64Url(array, strip) ==
    IF strip THEN StripEquals(UrlSafe(Btoa(array))) ELSE UrlSafe(Btoa(array))

RECURSIVE ReadIntFrom(_, _, _)
ReadIntFrom(array, i, value) ==
    IF i > Len(array) THEN value
    ELSE Only({ ReadIntFrom(array, i + 1, v) : v \in { value * 256 + array[i] } })

\* readInt
ReadInt(array) == ReadIntFrom(array, 1, 0)

----------------------------------------------------------------------------
(* The hard-size tables of cesr-tables.js                                  *)

CountCodeStart == Ord("-")
OpCodeStart == Ord("_")

IsLetter(ch) == (ch >= 65 /\ ch <= 90) \/ (ch >= 97 /\ ch <= 122)

\* MatterHards[first], 0 when first is no key
MatterHards(first) ==
    IF Len(first) # 1 THEN 0
    ELSE IF IsLetter(first[1]) THEN 1
    ELSE IF first[1] \in {Ord("0"), Ord("4"), Ord("5"), Ord("6")} THEN 2
    ELSE IF first[1] \in {Ord("1"), Ord("2"), Ord("3"), Ord("7"), Ord("8"), Ord("9")} THEN 4
    ELSE 0

\* CounterHards[first], 0 when first is no key
CounterHards(first) ==
    IF Len(first) # 2 \/ first[1] # Ord("-") THEN 0
    ELSE IF IsLetter(first[2]) THEN 2
    ELSE IF first[2] = Ord("0") THEN 3
    ELSE 0

----------------------------------------------------------------------------
(* The parser: primitives                                                  *)

Shortage(at, need) ==
    [ok |-> FALSE, err |-> [type |-> "ShortageError", at |-> at], need |-> need]

\* fromMatterQB64b from the decoded paw on, with no check of the pad bits and
\* of the lead bytes
MatterUnchecked(qb64b, hard, cs, ls, ps, pbs, lead, paw) ==
    IF ~paw.ok THEN paw
    ELSE IF Len(SliceFrom(paw.bytes, lead)) # ((Len(qb64b) - cs) * 3) \div 4 - ls
    THEN Throw("ConversionError", "fromMatterQB64b")
    ELSE [ok |-> TRUE, hard |-> hard, fs |-> Len(qb64b), raw |-> SliceFrom(paw.bytes, lead)]

\* fromMatterQB64b from the decoded paw on: the check of the pad bits or the
\* lead bytes (the first `lead` bytes of paw) and of the length of raw
MatterChecked(qb64b, hard, cs, ls, ps, pbs, lead, paw) ==
    IF ~paw.ok THEN paw
    ELSE IF ps > 0 /\ ReadInt(Slice(paw.bytes, 0, lead)) % Pow2(pbs) # 0
    THEN Throw("Error", "Non-zeroed pad bits")
    ELSE IF ps = 0 /\ ReadInt(Slice(paw.bytes, 0, lead)) > 0
    THEN Throw("Error", "Non-zeroed lead bytes")
    ELSE IF Len(SliceFrom(paw.bytes, lead)) # ((Len(qb64b) - cs) * 3) \div 4 - ls
    THEN Throw("ConversionError", "fromMatterQB64b")
    ELSE [ok |-> TRUE, hard |-> hard, fs |-> Len(qb64b), raw |-> SliceFrom(paw.bytes, lead)]

\* fromMatterQB64b for the pad size ps = cs % 4
MatterPadded(qb64b, hard, cs, ls, ps) ==
    Only({ MatterChecked(qb64b, hard, cs, ls, ps, 2 * (IF ps # 0 THEN ps ELSE ls),
                         IF ps > 0 THEN ps ELSE ls, paw) :
             paw \in { DecodeBase64Url(base) :
                         base \in { IF ps > 0 THEN Repeat(65, ps) \o SliceFrom(qb64b, cs)
                                    ELSE SliceFrom(qb64b, cs) } } })

\* fromMatterQB64b for the primitive qb64b cut to its full size
MatterRaw(qb64b, hard, cs, ls) == MatterPadded(qb64b, hard, cs, ls, cs % 4)

\* fromMatterQB64b once fs is known
MatterSized(qb64b, hard, cs, ls, fs) ==
    IF Len(qb64b) < fs THEN Shortage("fromMatterQB64b", fs - Len(qb64b))
    ELSE Only({ MatterRaw(cut, hard, cs, ls) : cut \in { Slice(qb64b, 0, fs) } })

\* fromMatterQB64b for a code with no fs: fs = size * 4 + cs
MatterVariable(qb64b, hard, cs, ls, size) ==
    IF ~size.ok THEN Throw("Error", "Base64.valueOf")
    ELSE MatterSized(qb64b, hard, cs, ls, size.value * 4 + cs)

\* fromMatterQB64b for the sizes {hs, ss, fs, ls} of the table
MatterWithSizes(qb64b, hard, sizes, cs) ==
    IF "fs" \in DOMAIN sizes THEN MatterSized(qb64b, hard, cs, sizes.ls, sizes.fs)
    ELSE IF cs % 4 # 0 THEN Throw("Error", "Code size not divisible by 4")
    ELSE Only({ MatterVariable(qb64b, hard, cs, sizes.ls, size) :
                  size \in { Base64ToInt(sizeChars) :
                               sizeChars \in { Utf8Decode(Slice(qb64b, sizes.hs, cs)) } } })

\* fromMatterQB64b from protocol.getCodeTable(hard) on
MatterWithTable(qb64b, hard, table) ==
    IF ~table.ok THEN table
    ELSE MatterWithSizes(qb64b, hard, table.table.sizes,
                         table.table.sizes.hs + table.table.sizes.ss)

\* fromMatterQB64b from the hard part of the code on
MatterWithHard(qb64b, protocol, hard) ==
    Only({ MatterWithTable(qb64b, hard, table) : table \in { GetCodeTable(protocol, hard) } })

\* fromMatterQB64b from hardSize = MatterHards[first] on, 0 for no entry
MatterWithHardSize(qb64b, protocol, first, hardSize) ==
    IF hardSize = 0
    THEN IF first[1] = CountCodeStart
         THEN Throw("UnexpectedCountCodeError", "fromMatterQB64b")
         ELSE IF first[1] = OpCodeStart
         THEN Throw("UnexpectedOpCodeError", "fromMatterQB64b")
         ELSE Throw("UnexpectedCodeError", "fromMatterQB64b")
    ELSE IF Len(qb64b) < hardSize
    THEN Shortage("fromMatterQB64b", hardSize - Len(qb64b))
    ELSE Only({ MatterWithHard(qb64b, protocol, hard) :
                  hard \in { Utf8Decode(Slice(qb64b, 0, hardSize)) } })

\* fromMatterQB64b
FromMatterQB64b(qb64b, protocol) ==
    IF Len(qb64b) = 0 THEN Throw("ShortageError", "Empty material")
    ELSE Only({ MatterWithHardSize(qb64b, protocol, first, MatterHards(first)) :
                  first \in { Utf8Decode(Slice(qb64b, 0, 1)) } })

\* toMatterQB64b from the padded raw on: the Base64 text without its first
\* cs % 4 characters, after the code
MatterEncoded(code, cs, paddedRaw) ==
    Only({ [ok |-> TRUE, bytes |-> Utf8Encode(code \o SliceFrom(b64Padded, cs % 4))] :
             b64Padded \in { EncodeBase64Url(paddedRaw, TRUE) } })

\* toMatterQB64b for the net pad size ps
MatterPrepadded(raw, code, cs, ls, ps) ==
    IF cs % 4 # ps - ls THEN Throw("Error", "Invalid code size and raw pad size")
    ELSE Only({ MatterEncoded(code, cs, paddedRaw) :
                  paddedRaw \in { Repeat(0, ps + ls) \o raw } })

\* toMatterQB64b from protocol.getCodeTable(code) on
MatterOfTable(raw, code, table) ==
    IF ~table.ok THEN table
    ELSE MatterPrepadded(raw, code, table.table.sizes.hs + table.table.sizes.ss,
                         table.table.sizes.ls,
                         (3 - ((Len(raw) + table.table.sizes.ls) % 3)) % 3)

\* toMatterQB64b
ToMatterQB64b(raw, code, protocol) ==
    Only({ MatterOfTable(raw, code, table) : table \in { GetCodeTable(protocol, code) } })

\* fromCounterQB64b: [hard, countInt]
CounterCounted(hard, countInt) ==
    IF ~countInt.ok THEN Throw("Error", "Base64.valueOf")
    ELSE [ok |-> TRUE, hard |-> hard, count |-> countInt.value]

\* fromCounterQB64b from protocol.getCodeTable(hard) on
CounterWithTable(qb64b, hard, table) ==
    IF ~table.ok THEN table
    ELSE IF Len(qb64b) < table.table.sizes.fs
    THEN Shortage("fromCounterQB64b", table.table.sizes.fs - Len(qb64b))
    ELSE Only({ CounterCounted(hard, countInt) :
                  countInt \in { Base64ToInt(countCodeB64) :
                                   countCodeB64 \in { Utf8Decode(Slice(qb64b,
                                                          table.table.sizes.hs,
                                                          table.table.sizes.fs)) } } })

\* fromCounterQB64b from the hard part of the code on
CounterWithHard(qb64b, protocol, hard) ==
    Only({ CounterWithTable(qb64b, hard, table) : table \in { GetCodeTable(protocol, hard) } })

\* fromCounterQB64b from hardSize = CounterHards[first] on, 0 for no entry
CounterWithHardSize(qb64b, protocol, first, hardSize) ==
    IF hardSize = 0
    THEN IF first[1] = OpCodeStart
         THEN Throw("UnexpectedOpCodeError", "fromCounterQB64b")
         ELSE Throw("UnexpectedCodeError", "fromCounterQB64b")
    ELSE IF Len(qb64b) < hardSize
    THEN Shortage("fromCounterQB64b", hardSize - Len(qb64b))
    ELSE Only({ CounterWithHard(qb64b, protocol, hard) :
                  hard \in { Utf8Decode(Slice(qb64b, 0, hardSize)) } })

\* fromCounterQB64b
FromCounterQB64b(qb64b, protocol) ==
    IF Len(qb64b) = 0 THEN Throw("ShortageError", "Empty material")
    ELSE Only({ CounterWithHardSize(qb64b, protocol, first, CounterHards(first)) :
                  first \in { Utf8Decode(Slice(qb64b, 0, 2)) } })

----------------------------------------------------------------------------
(* The parser: values and frames                                           *)

\* new CesrValue({header, value}); its length is value.length
CesrValue(header, value) == [ok |-> TRUE, header |-> header, value |-> value]

\* getCesrValue: the value read for the total length
ValueRead(code, total, value) ==
    IF total # Len(value) THEN Throw("UnknownCodeError", "getCesrValue")
    ELSE CesrValue(code, value)

\* getCesrValue from table.getTotalLength(code) on
ValueWithTotal(in, code, total) ==
    IF ~total.ok THEN total
    ELSE IF total.total > Len(in) THEN Throw("UnknownCodeError", "getCesrValue")
    ELSE Only({ ValueRead(code, total.total, value) : value \in { Slice(in, 0, total.total) } })

\* getCesrValue from table.mapCodeHeader on
ValueWithCode(in, spec, code) ==
    IF ~code.ok THEN code
    ELSE Only({ ValueWithTotal(in, code.header, total) :
                  total \in { GetTotalLength(spec, code.header) } })

\* getCesrValue from protocol.getCodeTable on
ValueWithTable(in, selector, table) ==
    IF ~table.ok THEN table
    ELSE IF CodeSize(table.table) > Len(selector)
    THEN Throw("UnknownCodeError", "getCesrValue")
    ELSE Only({ ValueWithCode(in, table.table, code) :
                  code \in { MapCodeHeader(table.table, cut) :
                               cut \in { Slice(selector, 0, CodeSize(table.table)) } } })

\* getCesrValue from protocol.getSelectorSize on
ValueWithSelector(protocol, in, selector, selectorSize) ==
    IF selectorSize > Len(selector) THEN Throw("UnknownCodeError", "getCesrValue")
    ELSE Only({ ValueWithTable(in, selector, table) :
                  table \in { GetCodeTable(protocol, cut) :
                                cut \in { Slice(selector, 0, selectorSize) } } })

\* getCesrValue
GetCesrValue(protocol, in) ==
    Only({ ValueWithSelector(protocol, in, selector, GetSelectorSize(selector)) :
             selector \in { Utf8Decode(Slice(in, 0, 8)) } })

\* the cold start tritets getCesrFrame acts on (ColdDex.CtB64, ColdDex.JSON)
ColdDexCtB64 == 1
ColdDexJSON == 3

\* getSealSourceTriples: the header with its fields overwritten and the value
\* input.slice(0, fs + tripleSize)
TriplesResult(in, derivationCode, fs, count, tripleSize) ==
    CesrValue(
        [derivationCode EXCEPT
            !.leadBytes = 0, !.size = fs, !.count = count, !.index = -1, !.ondex = -1,
            !.defined = @ \cup {"leadBytes", "size", "count", "index", "ondex"}],
        Slice(in, 0, fs + tripleSize))

\* every pass of the loop parses the three primitives at the start of
\* `triple`, so each of the count passes adds what the first pass adds
TriplesSaider(in, derivationCode, fs, count, prefix, seqner, saider) ==
    IF ~saider.ok THEN saider
    ELSE TriplesResult(in, derivationCode, fs, count,
                       count * (prefix.fs + seqner.fs + saider.fs))

TriplesSeqner(in, protocol, derivationCode, fs, count, triple, prefix, seqner) ==
    IF ~seqner.ok THEN seqner
    ELSE Only({ TriplesSaider(in, derivationCode, fs, count, prefix, seqner, saider) :
                  saider \in { FromMatterQB64b(rest, protocol) :
                                 rest \in { SliceFrom(triple, prefix.fs + seqner.fs) } } })

TriplesPrefix(in, protocol, derivationCode, fs, count, triple, prefix) ==
    IF ~prefix.ok THEN prefix
    ELSE Only({ TriplesSeqner(in, protocol, derivationCode, fs, count, triple, prefix, seqner) :
                  seqner \in { FromMatterQB64b(rest, protocol) :
                                 rest \in { SliceFrom(triple, prefix.fs) } } })

\* getSealSourceTriples from fromCounterQB64b on
TriplesCounted(in, protocol, derivationCode, fs, triple, counter) ==
    IF ~counter.ok THEN counter
    ELSE IF counter.count > 0
    THEN Only({ TriplesPrefix(in, protocol, derivationCode, fs, counter.count, triple, prefix) :
                  prefix \in { FromMatterQB64b(triple, protocol) } })
    ELSE TriplesResult(in, derivationCode, fs, counter.count, 0)

\* getSealSourceTriples from table.getTotalLength on
TriplesWithLength(in, protocol, derivationCode, fs) ==
    IF ~fs.ok THEN fs
    ELSE Only({ TriplesCounted(in, protocol, derivationCode, fs.total, triple, counter) :
                  triple \in { SliceFrom(in, fs.total) },
                  counter \in { FromCounterQB64b(code, protocol) :
                                  code \in { Slice(in, 0, fs.total) } } })

\* getSealSourceTriples from protocol.getCodeTable on
TriplesWithTable(cesrValue, in, protocol, derivationCode, table) ==
    IF ~table.ok THEN table
    ELSE Only({ TriplesWithLength(in, protocol, derivationCode, fs) :
                  fs \in { GetTotalLength(table.table, cesrValue.header) } })

\* getSealSourceTriples
GetSealSourceTriples(cesrValue, protocol, in, derivationCode) ==
    Only({ TriplesWithTable(cesrValue, in, protocol, derivationCode, table) :
             table \in { GetCodeTable(protocol, cesrValue.header.selector) } })

\* getAttachedMaterialQuadlets with the size of the quadlets alone
QuadletsWithoutCode(in, derivationCode, quadletCount, codeLength) ==
    IF quadletCount * 4 > Len(in)
    THEN Throw("UnknownCodeError", "getAttachedMaterialQuadlets")
    ELSE CesrValue(derivationCode, Slice(in, 0, quadletCount * 4))

\* getAttachedMaterialQuadlets
GetAttachedMaterialQuadlets(in, derivationCode, quadletCount, codeLength) ==
    IF quadletCount * 4 + codeLength > Len(in)
    THEN Throw("UnknownCodeError", "getAttachedMaterialQuadlets")
    ELSE CesrValue(derivationCode, Slice(in, 0, quadletCount * 4 + codeLength))

SelectorDashI == Str(<<"-", "I">>)
SelectorDashV == Str(<<"-", "V">>)
SelectorDash0V == Str(<<"-", "0", "V">>)

\* getTextFrame: the switch on cesrValue.header.selector
TextFrameSwitch(protocol, in, cesrValue) ==
    IF ~cesrValue.ok THEN cesrValue
    ELSE IF cesrValue.header.selector = SelectorDashI
    THEN GetSealSourceTriples(cesrValue, protocol, in, cesrValue.header)
    ELSE IF cesrValue.header.selector \in {SelectorDashV, SelectorDash0V}
    THEN GetAttachedMaterialQuadlets(in, cesrValue.header, cesrValue.header.count,
                                     HeaderLength(cesrValue.header))
    ELSE Throw("UnknownCodeError", "getTextFrame")

\* getTextFrame
GetTextFrame(protocol, in) ==
    Only({ TextFrameSwitch(protocol, in, cesrValue) :
             cesrValue \in { GetCesrValue(protocol, in) } })

\* a character \w of a regular expression matches
IsWordChar(ch) == IsLetter(ch) \/ (ch >= 48 /\ ch <= 57) \/ ch = 95

\* versionStrPattern.exec(versionStrHeader) !== null
MatchesVersionStr(h) ==
    /\ Len(h) >= 24
    /\ h[1] = 123 /\ h[2] = 34 /\ IsWordChar(h[3]) /\ h[4] = 34 /\ h[5] = 58 /\ h[6] = 34
    /\ \A i \in 7..22 : IsWordChar(h[i])
    /\ h[23] = 95 /\ h[24] = 34

SerialsJson == Str(<<"J", "S", "O", "N">>)

\* new CesrVersionHeader for the version string; size is Hex.toInt(digits)
VersionHeader(versionStr, size) ==
    [ variant |-> "version",
      value |-> versionStr,
      serial |-> Slice(versionStr, 6, 10),
      proto |-> Slice(versionStr, 0, 6),
      digits |-> Slice(versionStr, 10, 16),
      size |-> size,
      selector |-> << >> ]

\* getJsonFrame from the first read of code.size on: the comparison with
\* input.length builds an UnknownCodeError and does not throw it
JsonSized(in, versionStr, size) ==
    IF ~size.ok THEN Throw("Error", "Hex.valueOf")
    ELSE CesrValue(VersionHeader(versionStr, size.value), Slice(in, 0, size.value))

\* getJsonFrame from the match of the version string on
JsonMatched(in, versionStr) ==
    IF SerialsJson # Slice(versionStr, 6, 10) THEN Throw("UnknownCodeError", "getJsonFrame")
    ELSE Only({ JsonSized(in, versionStr, size) :
                  size \in { HexToInt(Slice(versionStr, 10, 16)) } })

\* getJsonFrame for the 24 characters of the header
JsonWithHeader(in, versionStrHeader) ==
    IF ~MatchesVersionStr(versionStrHeader) THEN Throw("UnknownCodeError", "getJsonFrame")
    ELSE Only({ JsonMatched(in, versionStr) :
                  versionStr \in { SubSeq(versionStrHeader, 7, 22) } })

\* getJsonFrame
GetJsonFrame(in) ==
    Only({ JsonWithHeader(in, versionStrHeader) :
             versionStrHeader \in { Utf8Decode(Slice(in, 0, 24)) } })

\* the switch with the tritet 2 sent to the text frames too
FrameSwitchWide(protocol, in, tritet) ==
    IF tritet \in {ColdDexCtB64, 2} THEN GetTextFrame(protocol, in)
    ELSE IF tritet = ColdDexJSON THEN GetJsonFrame(in)
    ELSE Throw("UnknownCodeError", "getCesrFrame")

\* getCesrFrame: the switch on the tritet
FrameSwitch(protocol, in, tritet) ==
    IF tritet = ColdDexCtB64 THEN GetTextFrame(protocol, in)
    ELSE IF tritet = ColdDexJSON THEN GetJsonFrame(in)
    ELSE Throw("UnknownCodeError", "getCesrFrame")

\* input[0] >> 5, 0 for an input with no byte
Tritet(in) == IF Len(in) = 0 THEN 0 ELSE in[1] \div 32

\* getCesrFrame
GetCesrFrame(protocol, in) == FrameSwitch(protocol, in, Tritet(in))

----------------------------------------------------------------------------
(* DecoderState: the frames are the chain currentFrame, .next, ..., the    *)
(* root last; a frame's group is the chain of its Group markers, the       *)
(* newest first. The root frame's end is undefined (hasEnd is FALSE).      *)

\* new DecoderState(value)
NewDecoderState ==
    << [end |-> 0, hasEnd |-> FALSE, valueGetter |-> "getCesrFrame", group |-> << >>] >>

\* DecoderState.currentFrame
CurrentFrame(fs) == fs[1]

\* DecoderState.isEmpty
IsEmpty(fs) == Len(fs) = 1

\* pushFrame with the end one byte short
PushFrameShort(fs, end) ==
    << [end |-> end - 1, hasEnd |-> TRUE, valueGetter |-> "getCesrValue", group |-> << >>] >> \o fs

\* pushFrame with the end one quadlet late
PushFrameLate(fs, end) ==
    << [end |-> end + 4, hasEnd |-> TRUE, valueGetter |-> "getCesrValue", group |-> << >>] >> \o fs

\* pushFrame with the markers of the enclosing frame handed on to the new one
PushFrameWithMarkers(fs, end) ==
    << [end |-> end, hasEnd |-> TRUE, valueGetter |-> "getCesrValue", group |-> fs[1].group] >> \o fs

\* DecoderState.pushFrame
PushFrame(fs, end) ==
    << [end |-> end, hasEnd |-> TRUE, valueGetter |-> "getCesrValue", group |-> << >>] >> \o fs

\* DecoderState.popFrame: the throw for an empty state, whose frames stay, or
\* the frames without the current one
PopFrame(fs) ==
    IF IsEmpty(fs)
    THEN [ok |-> FALSE, err |-> [type |-> "Error", at |-> "DecoderState.popFrame"], frames |-> fs]
    ELSE [ok |-> TRUE, frames |-> Tail(fs)]

\* pushGroup with one marker more than count
PushGroupOneMore(fs, count, protocol) ==
    [fs EXCEPT ![1].group = Repeat([protocol |-> protocol], count + 1) \o @]

\* pushGroup with the new markers under the ones the frame already has
PushGroupUnder(fs, count, protocol) ==
    [fs EXCEPT ![1].group = @ \o Repeat([protocol |-> protocol], count)]

\* DecoderState.pushGroup: count markers, each with the protocol (<< >> for null)
PushGroup(fs, count, protocol) ==
    [fs EXCEPT ![1].group = Repeat([protocol |-> protocol], count) \o @]

\* popGroup that returns the marker and leaves it on the frame
PopGroupKeep(fs) ==
    IF fs[1].group = << >>
    THEN [group |-> [present |-> FALSE, protocol |-> << >>], frames |-> fs]
    ELSE [group |-> [present |-> TRUE, protocol |-> Head(fs[1].group).protocol],
          frames |-> fs]

\* DecoderState.popGroup: the marker returned (present is FALSE for none) and
\* the frames after it
PopGroup(fs) ==
    IF fs[1].group = << >>
    THEN [group |-> [present |-> FALSE, protocol |-> << >>], frames |-> fs]
    ELSE [group |-> [present |-> TRUE, protocol |-> Head(fs[1].group).protocol],
          frames |-> [fs EXCEPT ![1].group = Tail(@)]]

\* input.slice(state.start, state.end)
StateSlice(fs, st, in) ==
    IF fs[1].hasEnd THEN SubSeq(in, Min(st, Len(in)) + 1, Min(fs[1].end, Len(in)))
    ELSE SliceFrom(in, st)

RECURSIVE NextSliceUnguarded(_, _, _)
\* the loop of nextSlice after a popFrame that did not test isEmpty
UnguardedPopped(popped, st, in) ==
    IF popped.ok THEN NextSliceUnguarded(popped.frames, st, in) ELSE popped

\* nextSlice without the test of state.isEmpty
NextSliceUnguarded(fs, st, in) ==
    IF Len(StateSlice(fs, st, in)) > 0 THEN [ok |-> TRUE, frames |-> fs]
    ELSE Only({ UnguardedPopped(popped, st, in) : popped \in { PopFrame(fs) } })

RECURSIVE NextSlice(_, _, _)
\* the loop of nextSlice after state.popFrame()
NextSlicePopped(popped, st, in) ==
    IF popped.ok THEN NextSlice(popped.frames, st, in) ELSE popped

\* CesrDecoder.nextSlice: the frames left when it returns, or the throw of
\* popFrame
NextSlice(fs, st, in) ==
    IF Len(StateSlice(fs, st, in)) > 0 THEN [ok |-> TRUE, frames |-> fs]
    ELSE IF IsEmpty(fs) THEN [ok |-> TRUE, frames |-> fs]
    ELSE Only({ NextSlicePopped(popped, st, in) : popped \in { PopFrame(fs) } })

----------------------------------------------------------------------------
(* CesrDecoder.values: one step is one call of next() by the consumer, from *)
(* the start of the generator or from its yield, up to the next yield, the  *)
(* return or the throw.                                                     *)

Running == pc \in {"start", "yielded"}

\* state.start when the loop body begins: a resumed generator first runs
\* `state.start += length`
Cursor == IF pc = "yielded" THEN start + length ELSE start

NoError == [type |-> "none", at |-> "none"]
NoHeader == [variant |-> "none"]

\* how a pass of the loop body ends: kind is done (break), error (throw) or the
\* branch that yields; frames is the DecoderState it leaves, group what
\* popGroup returned, length what the cursor advances by after the yield
Outcome(kind, fs, group, header, valueLength, len, e) ==
    [ kind |-> kind, frames |-> fs, group |-> group, header |-> header,
      valueLength |-> valueLength, length |-> len, err |-> e ]

\* the pass for a coded value, its header with serial and version set
StepCoded(fs, cursor, group, v, header) ==
    IF IsFrame(header)
    THEN Outcome("frame", PushFrame(fs, cursor + Len(v.value)), group, header,
                 Len(v.value), HeaderLength(header), NoError)
    ELSE IF IsGroup(header)
    THEN Outcome("group",
                 PushGroup(fs, header.count,
                           IF HasContext(header) THEN GetContext(header) ELSE << >>),
                 group, header, Len(v.value), Len(v.value), NoError)
    ELSE Outcome("leaf", fs, group, header, Len(v.value), Len(v.value), NoError)

\* the pass from the decoded frameValue on
StepDecoded(fs, cursor, group, v, ser, ver) ==
    IF ~v.ok THEN Outcome("error", fs, group, NoHeader, 0, 0, v.err)
    ELSE IF v.header.serial # << >>
    THEN IF v.header.serial = SerialsJson
         THEN Outcome("json", fs, group, v.header, Len(v.value), Len(v.value), NoError)
         ELSE Outcome("error", fs, group, NoHeader, 0, 0,
                      [type |-> "Error", at |-> "Unsupported serialization type"])
    ELSE IF v.header.selector # << >>
    THEN Only({ StepCoded(fs, cursor, group, v, header) :
                  header \in { [v.header EXCEPT !.serial = ser, !.version = ver] } })
    ELSE Outcome("error", fs, group, NoHeader, 0, 0,
                 [type |-> "Error", at |-> "Unsupported header type"])

\* getValue(protocol, slice) with the frame's valueGetter
GetValue(valueGetter, protocol, slice) ==
    IF valueGetter = "getCesrFrame" THEN GetCesrFrame(protocol, slice)
    ELSE GetCesrValue(protocol, slice)

\* the protocol of the decoder, whatever the marker says
ProtocolOfBase(group, protocol0) == protocol0

\* group?.protocol ?? this.#protocol
ProtocolOf(group, protocol0) ==
    IF group.present /\ group.protocol # << >> THEN group.protocol ELSE protocol0

\* the pass from state.popGroup() on
StepPopped(frame, cursor, slice, popped, protocol0, ser, ver) ==
    Only({ StepDecoded(popped.frames, cursor, popped.group, v, ser, ver) :
             v \in { GetValue(frame.valueGetter, ProtocolOf(popped.group, protocol0), slice) } })

\* the pass from the slice nextSlice returned on
StepSliced(fs, cursor, slice, protocol0, ser, ver) ==
    IF Len(slice) = 0
    THEN Outcome("done", fs, [present |-> FALSE, protocol |-> << >>], NoHeader, 0, 0, NoError)
    ELSE Only({ StepPopped(CurrentFrame(fs), cursor, slice, popped, protocol0, ser, ver) :
                  popped \in { PopGroup(fs) } })

\* the pass for the frames nextSlice left
StepFramed(fs, cursor, in, protocol0, ser, ver) ==
    Only({ StepSliced(fs, cursor, slice, protocol0, ser, ver) :
             slice \in { StateSlice(fs, cursor, in) } })

\* the pass from the return of nextSlice on; its throw ends the generator
StepNext(next, cursor, in, protocol0, ser, ver) ==
    IF ~next.ok
    THEN Outcome("error", next.frames, [present |-> FALSE, protocol |-> << >>], NoHeader,
                 0, 0, next.err)
    ELSE StepFramed(next.frames, cursor, in, protocol0, ser, ver)

\* one pass of the loop body of values() for the state (fs0, cursor), the
\* generator's protocol and its locals serial and version
Step(fs0, cursor, in, protocol0, ser, ver) ==
    Only({ StepNext(next, cursor, in, protocol0, ser, ver) :
             next \in { NextSlice(fs0, cursor, in) } })

\* the pass the generator makes when the consumer calls next()
ThisStep == Step(frames, Cursor, input, names, serial, version)

MaxYield == 8

\* the mapping hook of a branch
Hook(kind) ==
    CASE kind = "json" -> "mapJsonFrame"
      [] kind = "frame" -> "mapCesrFrame"
      [] kind = "group" -> "mapCesrGroup"
      [] kind = "leaf" -> "mapCesrLeaf"

\* the offset of a frame given as the whole frame, not as its code
ResultWhole(o, cursor) ==
    [ hook |-> Hook(o.kind), header |-> o.header, valueLength |-> o.valueLength,
      start |-> cursor, length |-> o.valueLength, group |-> o.group,
      depth |-> IF o.kind = "frame" THEN Len(o.frames) - 1 ELSE Len(o.frames) ]

\* what the consumer receives: the hook called, the header, the length of the
\* value, the offset {start, length}, the group and the depth of the frame
Result(o, cursor) ==
    [ hook |-> Hook(o.kind), header |-> o.header, valueLength |-> o.valueLength,
      start |-> cursor, length |-> o.length, group |-> o.group,
      depth |-> IF o.kind = "frame" THEN Len(o.frames) - 1 ELSE Len(o.frames) ]

\* a yield after the cursor has been moved past the value
YieldAdvanced(o) ==
    /\ length' = o.length
    /\ last' = Result(o, Cursor)
    /\ out' = IF Len(out) < MaxYield THEN Append(out, Result(o, Cursor)) ELSE out
    /\ frames' = o.frames
    /\ start' = Cursor + o.length
    /\ pc' = "yielded"
    /\ passes' = (passes + 1) % 2

\* the generator suspends at `yield result` with the state the pass left
Yield(o) ==
    /\ length' = o.length
    /\ last' = Result(o, Cursor)
    /\ out' = IF Len(out) < MaxYield THEN Append(out, Result(o, Cursor)) ELSE out
    /\ frames' = o.frames
    /\ start' = Cursor
    /\ pc' = "yielded"
    /\ passes' = (passes + 1) % 2

\* the while loop ends: the slice is empty
ValuesReturn ==
    /\ Running
    /\ \E o \in {ThisStep} :
        /\ o.kind = "done"
        /\ pc' = "done"
        /\ passes' = (passes + 1) % 2
        /\ start' = Cursor
        /\ frames' = o.frames
    /\ UNCHANGED <<other, call, input, names, length, serial, version, last, err, out>>

\* the extraction, or the classification of its value, throws: the generator
\* ends with the exception
ValuesThrow ==
    /\ Running
    /\ \E o \in {ThisStep} :
        /\ o.kind = "error"
        /\ err' = o.err
        /\ pc' = "error"
        /\ passes' = (passes + 1) % 2
        /\ start' = Cursor
        /\ frames' = o.frames
    /\ UNCHANGED <<other, call, input, names, length, serial, version, last, out>>

\* a version header is yielded and the locals serial and version stay
ValuesYieldJsonKeep ==
    /\ Running
    /\ \E o \in {ThisStep} :
        /\ o.kind = "json"
        /\ Yield(o)
    /\ UNCHANGED <<other, call, input, names, err, serial, version>>

\* a version header: serial and version are set, mapJsonFrame
ValuesYieldJson ==
    /\ Running
    /\ \E o \in {ThisStep} :
        /\ o.kind = "json"
        /\ serial' = o.header.serial
        /\ version' = o.header.proto
        /\ Yield(o)
    /\ UNCHANGED <<other, call, input, names, err>>

\* a coded value that is a frame: mapCesrFrame and pushFrame
ValuesYieldFrame ==
    /\ Running
    /\ \E o \in {ThisStep} :
        /\ o.kind = "frame"
        /\ Yield(o)
    /\ UNCHANGED <<other, call, input, names, serial, version, err>>

\* a coded value that is a group: mapCesrGroup and pushGroup
ValuesYieldGroup ==
    /\ Running
    /\ \E o \in {ThisStep} :
        /\ o.kind = "group"
        /\ Yield(o)
    /\ UNCHANGED <<other, call, input, names, serial, version, err>>

\* any other coded value: mapCesrLeaf
ValuesYieldLeaf ==
    /\ Running
    /\ \E o \in {ThisStep} :
        /\ o.kind = "leaf"
        /\ Yield(o)
    /\ UNCHANGED <<other, call, input, names, serial, version, err>>

----------------------------------------------------------------------------
(* The streams and the protocols a session is started with                 *)

MaxBody == 3
MaxTail == 1
MaxSigs == 3

\* the character of a Base64 digit
Base64Char(v) ==
    IF v < 26 THEN 65 + v
    ELSE IF v < 52 THEN 71 + v
    ELSE IF v < 62 THEN v - 4
    ELSE IF v = 62 THEN 45 ELSE 95

\* a count as two Base64 digits
Count2(n) == << Base64Char(n \div 64), Base64Char(n % 64) >>

\* {"v":"KERI10<kind><digits>_"
JsonHeader(serialName, digits) ==
    Str(<<"{", "\"", "v", "\"", ":", "\"", "K", "E", "R", "I", "1", "0">>)
        \o serialName \o digits \o Str(<<"_", "\"">>)

\* a version header that declares its own 24 bytes
Json24 == JsonHeader(SerialsJson, Str(<<"0", "0", "0", "0", "1", "8">>))

\* a version header that declares 28 bytes, and its body
Json28 == JsonHeader(SerialsJson, Str(<<"0", "0", "0", "0", "1", "c">>)) \o Str(<<"}", "}", "}", "}">>)

\* n bytes of a body
Filler(n) == [i \in 1..n |-> 125]

\* a version header that declares 252 bytes, and its body
Json252 == JsonHeader(SerialsJson, Str(<<"0", "0", "0", "0", "f", "c">>)) \o Filler(228)

ItemM == Str(<<"M", "A", "A", "A">>)
ItemN == Str(<<"N", "A", "A", "A", "A", "A", "A", "A">>)
ItemSig == Str(<<"A", "B", "A", "A", "A", "A", "A", "A">>)

\* the values a frame body is made of
NestedItems == { ItemM, ItemN, ItemSig, Str(<<"-", "A", "A", "B">>), Str(<<"-", "C", "A", "B">>) }

RECURSIVE Bodies(_)
\* the sequences of up to n items
Bodies(n) ==
    IF n = 0 THEN { << >> }
    ELSE Bodies(n - 1) \cup { b \o i : b \in Bodies(n - 1), i \in NestedItems }

\* a counter code, the count of quadlets of the body, the body
Counted(code, body) == code \o Count2(Len(body) \div 4) \o body

DashV(body) == Counted(SelectorDashV, body)

RECURSIVE Tails(_)
\* up to n version headers
Tails(n) ==
    IF n = 0 THEN { << >> } ELSE Tails(n - 1) \cup { x \o Json24 : x \in Tails(n - 1) }

\* a version header or none, a -V with its body, version headers after it
FramedStreams ==
    { pre \o DashV(b) \o t : pre \in { << >>, Json24 }, b \in Bodies(MaxBody), t \in Tails(MaxTail) }

RECURSIVE Sigs(_)
Sigs(n) == IF n = 0 THEN << >> ELSE ItemSig \o Sigs(n - 1)

\* a -V whose body is a group of three and the values that follow it
GroupStreams ==
    { Json24 \o DashV(Str(<<"-", "A", "A", "D">>) \o Sigs(k) \o x) \o t :
        k \in 0..(MaxSigs + 1), x \in { << >>, ItemN }, t \in Tails(MaxTail) }

\* a group of signatures inside a group of couples, at the top level and in a
\* -V: the couples group has a marker left when the signatures are read
NestedGroupStreams ==
    { pre \o w :
        pre \in { << >>, Json24 },
        w \in UNION { { g, DashV(g) } :
                 g \in { Str(<<"-", "C", "A", "B">>) \o Str(<<"-", "A", "A">>) \o <<Base64Char(m)>>
                            \o Sigs(n) \o x :
                          m \in 1..2, n \in 0..2, x \in { << >>, ItemM, ItemM \o ItemN } } } }

\* the bodies of a -V that follows a group
GroupedBodies == { ItemM, ItemM \o ItemN, Str(<<"-", "A", "A", "B">>) \o ItemSig }

\* a -V that follows a group while a marker of the group remains: after two
\* seal source triples at the top level, and after a group of couples in a -V
FrameInGroupStreams ==
    { pre \o Str(<<"-", "I", "A", "C">>) \o ItemM \o ItemM \o ItemM \o ItemM \o ItemM \o ItemM
          \o DashV(b) \o x :
        pre \in { << >>, Json24 }, b \in GroupedBodies,
        x \in { << >>, Json24, DashV(ItemM), DashV(ItemM) \o Json24 } }
    \cup
    { pre \o DashV(Str(<<"-", "C", "A", "B">>) \o DashV(b) \o x) :
        pre \in { << >>, Json24 }, b \in GroupedBodies,
        x \in { << >>, ItemM, ItemM \o ItemN } }

\* seal source triples: the counter -I and its triples of primitives
TripleStreams ==
    { pre \o Str(<<"-", "I", "A">>) \o <<Base64Char(n)>> \o body \o t :
        pre \in { << >>, Json24 }, n \in 0..2,
        body \in { << >>, ItemM \o ItemM \o ItemM, ItemM \o ItemN \o ItemM,
                   ItemM \o ItemM \o ItemM \o ItemN \o ItemN \o ItemN },
        t \in Tails(MaxTail) }

\* version headers that declare other sizes, kinds and digits, and what follows
JsonStreams ==
    { JsonHeader(k, d) \o t :
        k \in { SerialsJson, Str(<<"C", "B", "O", "R">>) },
        d \in { Str(<<"0", "0", "0", "0", "1", "8">>), Str(<<"0", "0", "0", "0", "1", "c">>),
                Str(<<"0", "0", "0", "0", "0", "0">>), Str(<<"0", "0", "0", "0", "0", "g">>),
                Str(<<"0", "0", "0", "0", "f", "c">>), Str(<<"0", "0", "0", "0", "0", "4">>) },
        t \in { << >>, Str(<<"}", "}", "}", "}">>), Json24,
                Str(<<"}", "}", "}", "}">>) \o DashV(ItemN) } }
        \cup { Json252 \o t : t \in Tails(MaxTail) }

\* a -V whose body begins with a -V that has a body of its own
NestedFrameStreams ==
    { pre \o DashV(DashV(b) \o x) \o t :
        pre \in { << >>, Json24 }, b \in { << >>, ItemN, ItemM \o ItemN }, x \in { << >>, ItemN },
        t \in Tails(MaxTail) }

\* a version header of another protocol that declares its own 24 bytes
Acdc24 ==
    Str(<<"{", "\"", "v", "\"", ":", "\"", "A", "C", "D", "C", "1", "0">>)
        \o SerialsJson \o Str(<<"0", "0", "0", "0", "1", "8">>) \o Str(<<"_", "\"">>)

\* attachments before a version header, after one and after a second one
TaggedStreams ==
    { a \o DashV(ItemN) \o b \o DashV(ItemM \o ItemN) :
        a \in { << >>, Json24, Acdc24 }, b \in { Json24, Acdc24 } }

\* one byte of every cold start tritet, first or after a version header
ColdStreams ==
    { pre \o <<b>> \o Str(<<"A", "A", "A", "A", "A", "A", "A">>) :
        pre \in { << >>, Json24 }, b \in { 10, 45, 65, 123, 128, 160, 192, 255 } }

\* two streams of whole values
WholeFrame == Json24 \o DashV(ItemM \o ItemN)
WholeJson == Json28 \o Json24

\* the proper prefixes of a stream that end inside a value: whole is the set of
\* the offsets where a value of the stream ends
Cuts(s, whole) == { SubSeq(s, 1, n) : n \in (1..(Len(s) - 1)) \ whole }

\* the streams that are cut short inside a value
CutStreams == Cuts(WholeFrame, {Len(Json24)}) \cup Cuts(WholeJson, {Len(Json28)})

Inputs ==
    FramedStreams \cup GroupStreams \cup TripleStreams \cup JsonStreams \cup ColdStreams
        \cup CutStreams \cup NestedFrameStreams \cup TaggedStreams \cup NestedGroupStreams
        \cup FrameInGroupStreams
        \cup { << >>, WholeFrame, WholeJson }

\* the tables a protocol is loaded with: -V a frame, a group or a leaf
Protocols ==
    { <<"matter", "counter">>, <<"matter", "counterG">>, <<"matter", "counterL">> }

----------------------------------------------------------------------------
(* The session                                                             *)

\* no second session
NoSession == [pc |-> "none"]

\* no call of a library function
NoCall == [ops |-> << >>, vals |-> << >>, err |-> NoError]

\* values(state, input) is called with a new DecoderState
SessionStart ==
    /\ frames = NewDecoderState
    /\ start = 0
    /\ pc = "start"
    /\ length = 0
    /\ serial = SerialsJson
    /\ version = << >>
    /\ last = [hook |-> "none"]
    /\ err = NoError
    /\ out = << >>
    /\ passes = 0

Init ==
    /\ input \in Inputs
    /\ names \in Protocols
    /\ SessionStart
    /\ other = NoSession
    /\ call = NoCall

Next ==
    \/ ValuesReturn
    \/ ValuesThrow
    \/ ValuesYieldJson
    \/ ValuesYieldFrame
    \/ ValuesYieldGroup
    \/ ValuesYieldLeaf

Spec == Init /\ [][Next]_vars

\* the consumer keeps requesting items
FairSpec == Spec /\ WF_vars(Next)

----------------------------------------------------------------------------
(* Two sessions: values() is called twice with the same decoder and input, *)
(* each call with a DecoderState of its own. The first session is the      *)
(* variables above, the second the record `other` with the same fields.    *)

\* a new DecoderState and the locals of values() at its entry
OtherStart ==
    [ pc |-> "start", frames |-> NewDecoderState, start |-> 0, length |-> 0,
      serial |-> SerialsJson, version |-> << >>, err |-> NoError, out |-> << >> ]

\* state.start when the loop body of the session begins
SessionCursor(s) == IF s.pc = "yielded" THEN s.start + s.length ELSE s.start

\* a pass of the second session that reads the DecoderState of the first
OtherPassShared(s) ==
    Step(frames, SessionCursor(s), input, names, s.serial, s.version)

\* the pass the second generator makes when its consumer calls next(): it
\* reads its own state and locals, the decoder's protocol and the input
OtherPass(s) ==
    Step(s.frames, SessionCursor(s), input, names, s.serial, s.version)

\* the session after the pass o from the cursor: returned, thrown or
\* suspended at the yield
SessionAfter(s, cursor, o) ==
    IF o.kind = "done"
    THEN [s EXCEPT !.pc = "done", !.start = cursor, !.frames = o.frames]
    ELSE IF o.kind = "error"
    THEN [s EXCEPT !.pc = "error", !.err = o.err, !.start = cursor, !.frames = o.frames]
    ELSE [s EXCEPT !.pc = "yielded",
                   !.length = o.length,
                   !.out = IF Len(@) < MaxYield THEN Append(@, Result(o, cursor)) ELSE @,
                   !.frames = o.frames,
                   !.start = cursor,
                   !.serial = IF o.kind = "json" THEN o.header.serial ELSE @,
                   !.version = IF o.kind = "json" THEN o.header.proto ELSE @]

\* the consumer of the second session calls next()
OtherValues ==
    /\ other.pc \in {"start", "yielded"}
    /\ other' = Only({ SessionAfter(other, SessionCursor(other), o) : o \in { OtherPass(other) } })
    /\ UNCHANGED <<input, names, frames, start, pc, length, serial, version, last, err, out,
                   passes, call>>

\* the streams of the two sessions: whole values in a frame, a group, a frame
\* in a frame, a stream cut inside a value, a header that declares no bytes
DuoInputs ==
    { WholeFrame,
      Json24 \o DashV(Str(<<"-", "A", "A", "D">>) \o Sigs(3)) \o Json24,
      DashV(DashV(ItemN) \o ItemN),
      SubSeq(WholeFrame, 1, Len(WholeFrame) - 2),
      JsonHeader(SerialsJson, Str(<<"0", "0", "0", "0", "0", "0">>)) }

DuoInit ==
    /\ input \in DuoInputs
    /\ names \in Protocols
    /\ SessionStart
    /\ other = OtherStart
    /\ call = NoCall

DuoNext == Next \/ OtherValues

DuoSpec == DuoInit /\ [][DuoNext]_vars

----------------------------------------------------------------------------
(* Calls of the library functions outside a session: call.ops are the      *)
(* functions to apply in turn, call.vals the argument and the results so   *)
(* far, call.err the exception that ended the calls                        *)

MaxRaw == 5

\* the variables of the sessions
sessionVars ==
    <<input, names, frames, start, pc, length, serial, version, last, err, out, passes, other>>

\* no session runs
NoSessions ==
    /\ input = << >>
    /\ names = <<"matter", "counter">>
    /\ frames = NewDecoderState
    /\ start = 0
    /\ pc = "none"
    /\ length = 0
    /\ serial = SerialsJson
    /\ version = << >>
    /\ last = [hook |-> "none"]
    /\ err = NoError
    /\ out = << >>
    /\ passes = 0
    /\ other = NoSession

\* the function op is the next to apply
Calling(op) ==
    /\ call.err = NoError
    /\ Len(call.vals) <= Len(call.ops)
    /\ call.ops[Len(call.vals)] = op

\* the argument of the next function: the first argument or the latest result
CallArg == call.vals[Len(call.vals)]

\* every function has returned, or one has thrown
CallEnded == call.err # NoError \/ Len(call.vals) > Len(call.ops)

CallReturns(value) == call' = [call EXCEPT !.vals = Append(@, value)]
CallThrows(e) == call' = [call EXCEPT !.err = e]

\* the calls that apply ops to the argument arg
CallOf(ops, arg) == [ops |-> ops, vals |-> <<arg>>, err |-> NoError]

CallToMatterQB64b ==
    /\ Calling("toMatterQB64b")
    /\ \E r \in { ToMatterQB64b(CallArg.raw, CallArg.code, names) } :
          IF r.ok THEN CallReturns(r.bytes) ELSE CallThrows(r.err)
    /\ UNCHANGED sessionVars

CallFromMatterQB64b ==
    /\ Calling("fromMatterQB64b")
    /\ \E r \in { FromMatterQB64b(CallArg, names) } :
          IF r.ok THEN CallReturns([hard |-> r.hard, fs |-> r.fs, raw |-> r.raw])
          ELSE CallThrows(r.err)
    /\ UNCHANGED sessionVars

\* table.mapCodeHeader(code) of the table and the text of the argument
CallMapCodeHeader ==
    /\ Calling("mapCodeHeader")
    /\ \E r \in { MapCodeHeader(CallArg.table, CallArg.code) } :
          IF r.ok THEN CallReturns(r.header) ELSE CallThrows(r.err)
    /\ UNCHANGED sessionVars

\* header.table.getTotalLength(header)
CallGetTotalLength ==
    /\ Calling("getTotalLength")
    /\ \E r \in { GetTotalLength(CallArg.table, CallArg) } :
          IF r.ok THEN CallReturns(r.total) ELSE CallThrows(r.err)
    /\ UNCHANGED sessionVars

CallHexEncode ==
    /\ Calling("Hex.encode")
    /\ \E text \in { HexEncode(CallArg) } : CallReturns(text)
    /\ UNCHANGED sessionVars

CallHexDecode ==
    /\ Calling("Hex.decode")
    /\ \E r \in { HexDecode(CallArg) } :
          IF r.ok THEN CallReturns(r.bytes) ELSE CallThrows(r.err)
    /\ UNCHANGED sessionVars

\* Base64.encodeBase64Url(array) of a Uint8Array, strip left at its default
CallEncodeBase64Url ==
    /\ Calling("encodeBase64Url")
    /\ \E text \in { EncodeBase64Url(CallArg, TRUE) } : CallReturns(text)
    /\ UNCHANGED sessionVars

\* Utf8.encode(text): the Uint8Array decodeBase64Url wants
CallUtf8Encode ==
    /\ Calling("Utf8.encode")
    /\ \E bytes \in { Utf8Encode(CallArg) } : CallReturns(bytes)
    /\ UNCHANGED sessionVars

\* Base64.decodeBase64Url(array) of a Uint8Array
CallDecodeBase64Url ==
    /\ Calling("decodeBase64Url")
    /\ \E r \in { DecodeBase64Url(CallArg) } :
          IF r.ok THEN CallReturns(r.bytes) ELSE CallThrows(r.err)
    /\ UNCHANGED sessionVars

\* Base64.toInt(value)
CallBase64ToInt ==
    /\ Calling("Base64.toInt")
    /\ \E r \in { Base64ToInt(CallArg) } :
          IF r.ok THEN CallReturns(r.value) ELSE CallThrows([type |-> "Error", at |-> "Base64.valueOf"])
    /\ UNCHANGED sessionVars

RECURSIVE SeqsOver(_, _)
\* the sequences of up to n elements of S
SeqsOver(S, n) ==
    IF n = 0 THEN { << >> }
    ELSE LET shorter == SeqsOver(S, n - 1)
         IN shorter \cup { Append(q, x) : q \in shorter, x \in S }

\* raw bytes of a primitive
RawBytes == SeqsOver({0, 1, 255}, MaxRaw)

\* the fixed-size codes with no soft part
FixedCodes == { SpecM.key, SpecN.key, Spec2AAA.key, Spec3AAA.key }

\* a primitive is encoded and the text decoded
MatterCalls ==
    { CallOf(<<"toMatterQB64b", "fromMatterQB64b">>, [raw |-> raw, code |-> code]) :
        raw \in RawBytes, code \in FixedCodes }

MaxDigits == 6

\* the digits of a soft part: the least, a small and the greatest digit
DigitTexts == SeqsOver({ Ord("A"), Ord("B"), Ord("_") }, MaxDigits)

\* every entry of every table
EntriesOf(name) == { Tables(name)[i] : i \in 1..Len(Tables(name)) }

AllSpecs ==
    UNION { EntriesOf(name) : name \in {"matter", "indexer", "counter", "counterG", "counterL"} }

\* the digits after a code: a small and the greatest digit
SoftTexts == SeqsOver({ Ord("B"), Ord("_") }, MaxDigits)

\* a header is read from a code followed by digits, and its length taken
HeaderCalls ==
    { CallOf(<<"mapCodeHeader", "getTotalLength">>, [table |-> spec, code |-> spec.key \o digits]) :
        spec \in AllSpecs, digits \in SoftTexts }

MaxHex == 3

\* bytes are written in hex and the text read
HexRoundTrips ==
    { CallOf(<<"Hex.encode", "Hex.decode">>, b) : b \in SeqsOver({0, 1, 171, 255}, MaxHex) }

\* texts of hex digits and of the letter g are read
HexTexts ==
    { CallOf(<<"Hex.decode">>, text) :
        text \in SeqsOver({ Ord("0"), Ord("f"), Ord("g") }, MaxHex + 1) }

MaxText == 4

\* bytes are written in Base64 and the text, as bytes, read
Base64RoundTrips ==
    { CallOf(<<"encodeBase64Url", "Utf8.encode", "decodeBase64Url">>, b) : b \in RawBytes }

\* the bytes of texts of URL-safe characters, of + and / and of a character
\* of neither alphabet are read and the bytes read written
Base64Texts ==
    { CallOf(<<"decodeBase64Url", "encodeBase64Url">>, text) :
        text \in SeqsOver({ Ord("B"), Ord("_"), 43, 47, 33 }, MaxText) }

\* the characters after a code: no bit set, a low bit set, a high bit set
SextetTexts == SeqsOver({ Ord("A"), Ord("B"), Ord("Q") }, MaxDigits)

\* the fixed-size codes of up to MaxDigits characters after the code: pad sizes
\* 1 and 2, lead sizes 1 and 2
PaddedCodes == { SpecM, Spec0H, Spec2AAA, Spec3AAA }

\* the text of a code and the characters after it is read as a primitive
PrimitiveCalls ==
    { CallOf(<<"fromMatterQB64b">>, spec.key \o text) : spec \in PaddedCodes, text \in SextetTexts }

\* the integer of a digits text is read
ToIntCalls == { CallOf(<<"Base64.toInt">>, text) : text \in DigitTexts }

Calls ==
    MatterCalls \cup HeaderCalls \cup HexRoundTrips \cup HexTexts
        \cup Base64RoundTrips \cup Base64Texts \cup ToIntCalls \cup PrimitiveCalls

CallInit == NoSessions /\ call \in Calls

CallNext ==
    \/ CallToMatterQB64b
    \/ CallFromMatterQB64b
    \/ CallMapCodeHeader
    \/ CallGetTotalLength
    \/ CallHexEncode
    \/ CallHexDecode
    \/ CallEncodeBase64Url
    \/ CallUtf8Encode
    \/ CallDecodeBase64Url
    \/ CallBase64ToInt

CallSpec == CallInit /\ [][CallNext]_vars

----------------------------------------------------------------------------
(* Well-formed streams: every value decodes, a version header's body is    *)
(* whole, a frame's body is a well-formed run of values that ends at the   *)
(* frame's end, and the values a group counts are there.                   *)

\* the markers still owed without the first
Rest(owed) == IF owed = << >> THEN << >> ELSE Tail(owed)

\* the protocol of the next value: the context of the marker it answers
OwedProtocol(owed, protocol0) ==
    IF owed # << >> /\ Head(owed) # << >> THEN Head(owed) ELSE protocol0

RECURSIVE WellFormedFrom(_, _, _, _, _, _)
\* the value v at pos is whole and what follows it is well formed
WellFormedValue(in, pos, end, owed, top, protocol0, v) ==
    /\ v.ok
    /\ Len(v.value) > 0
    /\ IF v.header.variant = "version"
       THEN /\ v.header.size = Len(v.value)
            /\ WellFormedFrom(in, pos + Len(v.value), end, Rest(owed), top, protocol0)
       ELSE IF IsFrame(v.header)
       THEN /\ WellFormedFrom(in, pos + HeaderLength(v.header), pos + Len(v.value), << >>,
                              FALSE, protocol0)
            /\ WellFormedFrom(in, pos + Len(v.value), end, Rest(owed), top, protocol0)
       ELSE IF IsGroup(v.header)
       THEN WellFormedFrom(in, pos + Len(v.value), end,
                           Repeat(IF HasContext(v.header) THEN GetContext(v.header) ELSE << >>,
                                  v.header.count) \o Rest(owed),
                           top, protocol0)
       ELSE WellFormedFrom(in, pos + Len(v.value), end, Rest(owed), top, protocol0)

\* in[pos..end) is a run of whole values that answers the markers owed; top
\* is TRUE for the stream itself, FALSE for the body of a frame
WellFormedFrom(in, pos, end, owed, top, protocol0) ==
    IF pos >= end THEN owed = << >>
    ELSE WellFormedValue(in, pos, end, owed, top, protocol0,
                         GetValue(IF top THEN "getCesrFrame" ELSE "getCesrValue",
                                  OwedProtocol(owed, protocol0), SubSeq(in, pos + 1, end)))

WellFormed == WellFormedFrom(input, 0, Len(input), << >>, TRUE, names)

----------------------------------------------------------------------------
(* Properties                                                              *)

C2_DecodeEnds == <>(pc \in {"done", "error"})

\* the end of the active frame, input.length for the root frame
FrameEnd == IF CurrentFrame(frames).hasEnd THEN CurrentFrame(frames).end ELSE Len(input)

\* C3: state.start never passes the end of the active frame, before and after
\* the generator adds the pending length to it.
C3_CursorWithinFrame == start <= FrameEnd /\ Cursor <= FrameEnd

\* the cursor has reached the end of a nested frame
C3_Witness ==
    /\ pc = "yielded"
    /\ Len(frames) = 2
    /\ last.hook = "mapCesrLeaf"
    /\ Cursor = FrameEnd
    /\ start < Cursor

\* WholeFrame cut short inside one of its two primitives
PrimitiveCuts == Cuts(WholeFrame, 1..(Len(Json24) + 4) \cup {Len(Json24) + 4 + Len(ItemM)})

\* C4: a stream of whole values cut short inside a primitive ends with a
\* ShortageError, and no shorter value is returned for the cut one.
C4_TruncationIsShortage ==
    (input \in PrimitiveCuts /\ names = <<"matter", "counter">> /\ pc \in {"done", "error"})
        => (pc = "error" /\ err.type = "ShortageError")

\* C5: no value is yielded for a version header that declares more bytes than
\* the input holds from the header on.
C5_OversizeJsonIsRejected ==
    \A i \in 1..Len(out) :
        out[i].hook = "mapJsonFrame" => out[i].header.size <= Len(input) - out[i].start

\* the length the sizing rule of a header gives: the declared size of a
\* version header, count*4 + code length for -V and -0V read as a text frame,
\* getTotalLength for any other code
RuleLength(r) ==
    IF r.header.variant = "version" THEN r.header.size
    ELSE IF r.depth = 1 /\ r.header.selector \in {SelectorDashV, SelectorDash0V}
    THEN r.header.count * 4 + HeaderLength(r.header)
    ELSE GetTotalLength(r.header.table, r.header).total

\* C6: the span of every value yielded is as long as its header's sizing rule
\* says (the seal source triples, sized by their primitives, are left out).
C6_SpanMatchesRule ==
    \A i \in 1..Len(out) :
        (out[i].header.variant = "version" \/ out[i].header.selector # SelectorDashI)
            => out[i].valueLength = RuleLength(out[i])

\* the next pass reads a cold start: the root frame is the active one and
\* bytes are left
AtColdStart ==
    /\ Running
    /\ IsEmpty(NextSlice(frames, Cursor, input).frames)
    /\ Cursor < Len(input)

ColdTritet == Tritet(SliceFrom(input, Cursor))

\* C7: at a cold start the tritet 1 is decoded as a text frame, the tritet 3
\* as a version header, and any other tritet ends the decode with the
\* UnknownCodeError of getCesrFrame, nothing yielded and the cursor where it was.
C7_ColdStartDispatch ==
    [][ AtColdStart =>
          /\ (ColdTritet \notin {ColdDexCtB64, ColdDexJSON}) =>
                /\ pc' = "error"
                /\ err' = [type |-> "UnknownCodeError", at |-> "getCesrFrame"]
                /\ start' = Cursor
                /\ out' = out
                /\ last' = last
          /\ (ColdTritet = ColdDexJSON) =>
                /\ pc' = "yielded" => last'.hook = "mapJsonFrame"
                /\ pc' = "error" => err'.at \in {"getJsonFrame", "Hex.valueOf"}
                /\ pc' # "done"
          /\ (ColdTritet = ColdDexCtB64) =>
                /\ pc' = "yielded" => last'.header.variant = "code"
                /\ pc' = "error" => err'.at \notin {"getCesrFrame", "getJsonFrame", "Hex.valueOf"}
                /\ pc' # "done"
      ]_vars

\* after a version header the byte 0x80 (tritet 4) ended the decode
C7_Witness ==
    /\ pc = "error"
    /\ err = [type |-> "UnknownCodeError", at |-> "getCesrFrame"]
    /\ start = Len(Json24)
    /\ Len(out) = 1
    /\ input[start + 1] \div 32 = 4

\* C8: the first value of an input that starts with a JSON version string is a
\* version header with the protocol, the kind and, as the length consumed, the
\* hex digits of the version string.
C8_FirstVersionHeader ==
    (Len(out) >= 1 /\ MatchesVersionStr(Utf8Decode(Slice(input, 0, 24))))
        => /\ out[1].hook = "mapJsonFrame"
           /\ out[1].header.proto = SubSeq(input, 7, 12)
           /\ out[1].header.serial = SubSeq(input, 13, 16)
           /\ out[1].length = HexToInt(SubSeq(input, 17, 22)).value

\* the step yielded a -V of two quadlets read as a text frame, of a table
\* that makes it neither a frame nor a group
YieldsLeafDashV ==
    /\ pc' = "yielded"
    /\ last'.header.variant = "code"
    /\ last'.header.selector = SelectorDashV
    /\ last'.header.count = 2
    /\ last'.depth = 1
    /\ ~IsFrame(last'.header)
    /\ ~IsGroup(last'.header)

\* C9: a -V of two quadlets that its table makes a leaf is 2*4 + code length
\* bytes long, is handed to the leaf hook, and its step pushes no frame.
C9_LeafDashV ==
    [][ YieldsLeafDashV =>
          /\ last'.valueLength = 2 * 4 + HeaderLength(last'.header)
          /\ last'.length = last'.valueLength
          /\ last'.hook = "mapCesrLeaf"
          /\ IsEmpty(frames')
          /\ Len(frames') = Len(NextSlice(frames, Cursor, input).frames)
      ]_vars

\* a -V of two quadlets was yielded as a leaf of 12 bytes and only the root
\* frame is there
C9_Witness ==
    /\ pc = "yielded"
    /\ names = <<"matter", "counterL">>
    /\ last.hook = "mapCesrLeaf"
    /\ last.header.selector = SelectorDashV
    /\ last.header.count = 2
    /\ last.valueLength = 12
    /\ IsEmpty(frames)

\* the values i..j were yielded in one frame and none after i pushed markers
SameFrameRun(i, j) ==
    \A k \in i..j :
        /\ out[k].depth = out[i].depth
        /\ (k > i /\ k < j) => out[k].hook = "mapCesrLeaf"

\* the value i is a group of three pushed on a frame with no marker
GroupOfThree(i) ==
    /\ out[i].hook = "mapCesrGroup"
    /\ out[i].header.count = 3
    /\ ~out[i].group.present

\* C10: a group code of count 3 pushes three markers on the active frame; each
\* of the next three values of the frame pops one, and the pop for the value
\* after them returns none.
C10_GroupOfThree ==
    /\ (pc = "yielded" /\ last.hook = "mapCesrGroup" /\ last.header.count = 3
            /\ ~last.group.present)
          => /\ Len(CurrentFrame(frames).group) = 3
             /\ \A m \in 1..3 :
                    CurrentFrame(frames).group[m].protocol
                        = (IF HasContext(last.header) THEN GetContext(last.header) ELSE << >>)
    /\ \A i \in 1..Len(out) :
          GroupOfThree(i) =>
              \A j \in (i + 1)..Min(i + 4, Len(out)) :
                  SameFrameRun(i, j) => (out[j].group.present <=> j <= i + 3)

\* three values answered the markers and a fourth found none
C10_Witness ==
    \E i \in 1..Len(out) :
        /\ GroupOfThree(i)
        /\ Len(out) >= i + 4
        /\ SameFrameRun(i, i + 4)
        /\ \A j \in (i + 1)..(i + 3) : out[j].group.present
        /\ ~out[i + 4].group.present

\* the raw size the sizes of a fixed-size code give: the bytes of its fs - cs
\* characters less the lead bytes
RawSizeOf(spec) ==
    ((spec.sizes.fs - spec.sizes.hs - spec.sizes.ss) * 3) \div 4 - spec.sizes.ls

\* the call encodes raw bytes of the size of its code
SizedMatterCall ==
    /\ call.ops = <<"toMatterQB64b", "fromMatterQB64b">>
    /\ \E spec \in { SpecM, SpecN, Spec2AAA, Spec3AAA } :
          call.vals[1].code = spec.key /\ Len(call.vals[1].raw) = RawSizeOf(spec)

\* C11: raw bytes of the size of a fixed-size code, encoded with toMatterQB64b
\* and decoded with fromMatterQB64b, come back with the code, lead bytes or not.
C11_MatterRoundTrip ==
    (SizedMatterCall /\ CallEnded)
        => /\ call.err = NoError
           /\ call.vals[3].hard = call.vals[1].code
           /\ call.vals[3].raw = call.vals[1].raw

\* a header has been read and its total length taken
HeaderCallEnded ==
    /\ call.ops = <<"mapCodeHeader", "getTotalLength">>
    /\ Len(call.vals) = 3

\* C12: the total length of every header mapCodeHeader produces is at least
\* the code size of its table, and for a variable-size header the length past
\* the code is a non-negative multiple of 4
C12_TotalLengthCoversCode ==
    HeaderCallEnded
        => /\ call.vals[3] >= CodeSize(call.vals[1].table)
           /\ IsVariableSize(call.vals[1].table)
                 => /\ call.vals[3] - CodeSize(call.vals[1].table) >= 0
                    /\ (call.vals[3] - CodeSize(call.vals[1].table)) % 4 = 0

\* a variable-size header with the greatest size its four digits can say
C12_Witness ==
    /\ HeaderCallEnded
    /\ call.vals[1].table = Spec7AAA
    /\ call.vals[2].size = 16777215
    /\ call.vals[3] = 8 + 4 * 16777215

\* a step of the generator suspends it with one more value, or yields nothing
OneValueAStep ==
    IF pc' = "yielded"
    THEN out' = Append(out, last') \/ (Len(out) = MaxYield /\ out' = out)
    ELSE out' = out

\* the cursor moves when the consumer resumes the generator, by the length of
\* the value it was given
AdvanceOnResume ==
    IF pc = "yielded" THEN start' = start + length ELSE start' = start

\* C14: the generator suspends once for each value it produces; while it is
\* suspended the cursor is the start offset of the value just yielded, and it
\* moves past the value only in the step the consumer's next request starts
C14_SuspendedAtValueStart ==
    /\ [](pc = "yielded" => start = last.start)
    /\ [][Running => OneValueAStep /\ AdvanceOnResume]_vars

\* the generator is suspended at its third value, past the start of the input
C14_Witness ==
    /\ pc = "yielded"
    /\ Len(out) = 3
    /\ last = out[3]
    /\ last.length > 0
    /\ start = out[2].start + out[2].length
    /\ start > 0

\* the byte two hex digits say
HexPairValue(text, k) ==
    HexValueOf(ToUpperCase(text[2 * k - 1])) * 16 + HexValueOf(ToUpperCase(text[2 * k]))

\* C15: Hex.decode reads two characters for each byte, byte k being the value
\* of the k-th pair of characters, and gives back the bytes Hex.encode wrote,
\* for byte sequences of every length
C15_HexRoundTrip ==
    (call.ops = <<"Hex.encode", "Hex.decode">> /\ CallEnded)
        => /\ call.err = NoError
           /\ Len(call.vals[3]) = Len(call.vals[1])
           /\ \A k \in 1..Len(call.vals[3]) : call.vals[3][k] = HexPairValue(call.vals[2], k)
           /\ call.vals[3] = call.vals[1]

\* a text is no hex string: its length is odd or a character is no hex digit
Malformed(text) ==
    Len(text) % 2 # 0 \/ \E i \in 1..Len(text) : HexValueOf(ToUpperCase(text[i])) = -1

\* C16: Hex.decode of a malformed text, one of odd length or with a character
\* that is no hex digit, ends in an error and returns no bytes
C16_HexRejectsMalformed ==
    (call.ops = <<"Hex.decode">> /\ CallEnded /\ Malformed(call.vals[1]))
        => call.err # NoError

\* every character of the text is of the URL-safe alphabet
UrlSafeText(text) == \A i \in 1..Len(text) : Base64ValueOf(text[i]) # -1

\* C17: decodeBase64Url gives back the bytes encodeBase64Url wrote,
\* encodeBase64Url gives back every URL-safe text decodeBase64Url accepted, and
\* decodeBase64Url rejects a text with a character outside A-Z a-z 0-9 - _
C17_Base64Inverses ==
    /\ (call.ops = <<"encodeBase64Url", "Utf8.encode", "decodeBase64Url">> /\ CallEnded)
          => call.err = NoError /\ call.vals[4] = call.vals[1]
    /\ (call.ops = <<"decodeBase64Url", "encodeBase64Url">> /\ CallEnded)
          => IF UrlSafeText(call.vals[1])
             THEN call.err = NoError => call.vals[3] = call.vals[1]
             ELSE call.err # NoError

RECURSIVE IsValueOfDigits(_, _, _)
\* v is the sum of digit_i * 64^(n-i) over the first n characters of the text:
\* its last base-64 digit is the n-th character, the rest the characters before
IsValueOfDigits(text, n, v) ==
    IF n = 0 THEN v = 0
    ELSE /\ v % 64 = Base64ValueOf(text[n])
         /\ IsValueOfDigits(text, n - 1, v \div 64)

\* C18: Base64.toInt returns the non-negative integer whose big-endian
\* base-64 digits are the characters of the text, for texts of every length,
\* those of 6 characters and more as well
C18_ToIntIsTheValue ==
    (call.ops = <<"Base64.toInt">> /\ CallEnded)
        => /\ call.err = NoError
           /\ call.vals[2] >= 0
           /\ IsValueOfDigits(call.vals[1], Len(call.vals[1]), call.vals[2])

\* popFrame on the state of the session: it throws and leaves the frames when
\* only the root frame is there, and takes the current frame off otherwise
PopFrameFailsOnRoot ==
    IF IsEmpty(frames)
    THEN /\ ~PopFrame(frames).ok
         /\ PopFrame(frames).err.at = "DecoderState.popFrame"
         /\ PopFrame(frames).frames = frames
    ELSE /\ PopFrame(frames).ok
         /\ PopFrame(frames).frames = Tail(frames)

\* C19: popFrame fails and leaves the state as it is when only the root frame
\* remains; in a run of values() that failure is never raised and the root
\* frame never popped: a step leaves fewer frames only when there were more
\* than the root, and the root stays
C19_RootIsNeverPopped ==
    /\ [](PopFrameFailsOnRoot /\ err.at # "DecoderState.popFrame" /\ Len(frames) >= 1)
    /\ [][Len(frames') < Len(frames)
            => /\ ~IsEmpty(frames)
               /\ ~frames'[Len(frames')].hasEnd
               /\ frames'[Len(frames')].valueGetter = NewDecoderState[1].valueGetter]_vars

\* the values of a frame were read to the end of the input: its frame was
\* popped, the search came to the root frame with nothing left and stopped
C19_Witness ==
    /\ pc = "done"
    /\ IsEmpty(frames)
    /\ \E i \in 1..Len(out) : out[i].hook = "mapCesrFrame"
    /\ ~PopFrame(frames).ok

\* the step yields a value whose table marks it a frame
YieldsFrame ==
    Running /\ pc' = "yielded" /\ last'.header.variant = "code" /\ IsFrame(last'.header)

\* C20: a step that meets a value whose table marks it a frame, in the root
\* frame or in a nested one, pushes a frame that ends at the value's start +
\* code length + 4 * quadlets, and a frame is popped only when the cursor has
\* reached its end
C20_FrameCoversBody ==
    [][ /\ YieldsFrame
          => /\ last'.hook = "mapCesrFrame"
             /\ Len(frames') = last'.depth + 1
             /\ frames'[1].valueGetter = "getCesrValue"
             /\ frames'[1].end
                   = last'.start + HeaderLength(last'.header) + 4 * last'.header.quadlets
        /\ Running
          => \A k \in 1..(Len(frames) - Len(NextSlice(frames, Cursor, input).frames)) :
                Cursor >= frames[k].end
      ]_vars

\* the first session as a record of the fields of the second
Me ==
    [ pc |-> pc, frames |-> frames, start |-> start, length |-> length,
      serial |-> serial, version |-> version, err |-> err, out |-> out ]

\* the step a session makes when it runs alone: a function of its own
\* DecoderState and locals, the input and the registry
SoloAfter(s) ==
    SessionAfter(s, SessionCursor(s),
                 Step(s.frames, SessionCursor(s), input, names, s.serial, s.version))

Ended(s) == s.pc \in {"done", "error"}

ActiveFrames == NextSlice(frames, Cursor, input).frames
ActiveSlice == StateSlice(ActiveFrames, Cursor, input)

\* the markers of the active frame when the next step begins
ActiveMarkers == CurrentFrame(ActiveFrames).group

\* the registry the next step is to extract with: the context of the first
\* marker of the active frame, the base registry when there is no marker or
\* the marker has no context
DueProtocol ==
    IF ActiveMarkers # << >> /\ Head(ActiveMarkers).protocol # << >>
    THEN Head(ActiveMarkers).protocol
    ELSE names

\* the value the active frame's getter extracts with the due registry
DueValue == GetValue(CurrentFrame(ActiveFrames).valueGetter, DueProtocol, ActiveSlice)

\* the markers the step leaves on the frame that was active, under the ones
\* and the frame the step itself pushed
MarkersLeft ==
    IF last'.hook = "mapCesrFrame" THEN frames'[2].group
    ELSE IF last'.hook = "mapCesrGroup"
    THEN SubSeq(frames'[1].group, last'.header.count + 1, Len(frames'[1].group))
    ELSE frames'[1].group

\* C21: a step pops at most one marker from the active frame and extracts the
\* next value with the context registry of that marker, with the base registry
\* when the frame has no marker or the marker has no context
C21_ExtractsWithMarkerContext ==
    [][ (Running /\ Len(ActiveSlice) > 0)
          => /\ pc' = "yielded"
                 => /\ DueValue.ok
                    /\ last'.valueLength = Len(DueValue.value)
                    /\ last'.header.value = DueValue.header.value
                    /\ last'.header.variant = DueValue.header.variant
                    /\ last'.header.variant = "code"
                          => last'.header.table = DueValue.header.table
                    /\ last'.group.present <=> ActiveMarkers # << >>
                    /\ MarkersLeft
                          = (IF ActiveMarkers = << >> THEN << >> ELSE Tail(ActiveMarkers))
             /\ DueValue.ok => (pc' = "yielded" \/ err'.type = "Error")
             /\ ~DueValue.ok => (pc' = "error" /\ err' = DueValue.err)
      ]_vars

\* a signature was extracted with the indexer tables of its group's marker,
\* and a value of a group with no context with the base registry
C21_Witness ==
    /\ pc = "yielded"
    /\ Len(out) >= 5
    /\ \E i \in 1..Len(out) :
          /\ out[i].group.present
          /\ out[i].group.protocol = <<"indexer">>
          /\ out[i].header.table = SpecIdxA
    /\ last.header.variant = "code"
    /\ ~last.group.present
    /\ last.header.table = SpecN

\* the version headers yielded before the value i
HeadersBefore(i) == { j \in 1..(i - 1) : out[j].header.variant = "version" }

\* the latest of them
HeaderBefore(i) == out[CHOOSE j \in HeadersBefore(i) : \A k \in HeadersBefore(i) : k <= j].header

\* C22: every coded value yielded carries the serialization kind and the
\* protocol name of the latest version header decoded before it in the
\* session, and the kind JSON and an empty protocol name when there was none
C22_TaggedWithLatestHeader ==
    \A i \in 1..Len(out) :
        out[i].header.variant = "code"
            => IF HeadersBefore(i) = {}
               THEN out[i].header.serial = SerialsJson /\ out[i].header.version = << >>
               ELSE /\ out[i].header.serial = HeaderBefore(i).serial
                    /\ out[i].header.version = HeaderBefore(i).proto

\* attachments with no header before them, then a header of one protocol and
\* attachments with its name, then a header of another and attachments with
\* that name
C22_Witness ==
    /\ Len(out) >= 7
    /\ out[1].header.variant = "version" /\ out[1].header.proto = Str(<<"A", "C", "D", "C", "1", "0">>)
    /\ out[3].header.variant = "code" /\ out[3].header.version = out[1].header.proto
    /\ out[4].header.variant = "version" /\ out[4].header.proto = Str(<<"K", "E", "R", "I", "1", "0">>)
    /\ out[7].header.variant = "code" /\ out[7].header.version = out[4].header.proto

\* the code the text of the call begins with
CodeOfCall == CHOOSE spec \in PaddedCodes : IsPrefix(spec.key, call.vals[1])

\* the bytes the characters after the code decode to, behind ps characters A
PawOf(spec, qb64b) ==
    DecodeBase64Url(Repeat(65, (spec.sizes.hs + spec.sizes.ss) % 4)
                        \o SubSeq(qb64b, spec.sizes.hs + spec.sizes.ss + 1, spec.sizes.fs))

\* the number of bytes before raw: the pad size, the lead size when it is 0
PrefixSize(spec) ==
    IF (spec.sizes.hs + spec.sizes.ss) % 4 > 0 THEN (spec.sizes.hs + spec.sizes.ss) % 4
    ELSE spec.sizes.ls

\* what the call is to end with for the bytes paw and the n bytes before raw
PaddingRule(spec, paw, n) ==
    IF ReadInt(SubSeq(paw, 1, n)) # 0
    THEN call.err = [type |-> "Error",
                     at |-> IF (spec.sizes.hs + spec.sizes.ss) % 4 > 0
                            THEN "Non-zeroed pad bits" ELSE "Non-zeroed lead bytes"]
    ELSE /\ call.err = NoError
         /\ call.vals[2] = [hard |-> spec.key, fs |-> spec.sizes.fs,
                            raw |-> SubSeq(paw, n + 1, Len(paw))]

\* a whole primitive of one of the codes was read
PrimitiveCallEnded ==
    /\ call.ops = <<"fromMatterQB64b">>
    /\ CallEnded
    /\ Len(call.vals[1]) >= CodeOfCall.sizes.fs

\* C23: fromMatterQB64b fails with non-zeroed pad bits exactly when the pad
\* size ps = cs mod 4 is not 0 and the integer of the first ps decoded bytes
\* (ps characters A put before the text) is not 0, and with non-zeroed lead
\* bytes exactly when ps is 0 and the integer of the first ls decoded bytes is
\* not 0; otherwise those bytes are dropped and the rest is raw
C23_RejectsNonZeroPadding ==
    PrimitiveCallEnded
        => PaddingRule(CodeOfCall, PawOf(CodeOfCall, call.vals[1]).bytes, PrefixSize(CodeOfCall))

\* a primitive of pad size 2 with a pad bit set was rejected
C23_Witness ==
    /\ PrimitiveCallEnded
    /\ call.vals[1] = Str(<<"0", "H", "Q", "A", "A", "A", "A", "B">>)
    /\ call.err.at = "Non-zeroed pad bits"

RECURSIVE PrimitivesLength(_, _, _)
\* the length of the primitive p and of the k - 1 primitives after it, -1 when
\* one of them cannot be extracted
PrimitivesAfter(text, protocol, k, p) ==
    IF ~p.ok THEN -1
    ELSE Only({ IF rest = -1 THEN -1 ELSE p.fs + rest :
                  rest \in { PrimitivesLength(SliceFrom(text, p.fs), protocol, k - 1) } })

\* the sum of the lengths of k primitives extracted one after the other, each at
\* the offset where the one before it ended
PrimitivesLength(text, protocol, k) ==
    IF k = 0 THEN 0
    ELSE Only({ PrimitivesAfter(text, protocol, k, p) : p \in { FromMatterQB64b(text, protocol) } })

\* the value i is a seal source triples counter
IsTriples(i) == out[i].header.variant = "code" /\ out[i].header.selector = SelectorDashI

\* the summed length of the 3 * count primitives after the counter of value i
TriplesLength(i) ==
    PrimitivesLength(SliceFrom(input, out[i].start + HeaderLength(out[i].header)), names,
                     3 * out[i].header.count)

\* C24: the length reported for a seal source triples counter of count n is the
\* length of its code and of the 3n primitives extracted one after the other
\* at successive offsets, also when the triples differ in length
C24_TriplesLengthIsTheSum ==
    \A i \in 1..Len(out) :
        (IsTriples(i) /\ TriplesLength(i) # -1)
            => out[i].valueLength = HeaderLength(out[i].header) + TriplesLength(i)

\* the offset at which the range of the last hook call ended, 0 before the first
RangeEnd == IF pc = "start" THEN 0 ELSE last.start + last.length

\* C25: the ranges {start, length} given to the mapping hooks tile the input:
\* the first starts at 0, each later one starts where the one before it ended
\* (a frame counts for its code alone), and when the generator returns the
\* last one ends at the length of the input
C25_RangesTileTheInput ==
    [][ /\ pc' = "yielded" => last'.start = RangeEnd
        /\ pc' = "done" => RangeEnd = Len(input) ]_vars

\* a decode of a frame, a group and leaves that has ended normally
C25_Witness ==
    /\ pc = "done"
    /\ Len(out) >= 4
    /\ \E i \in 1..Len(out) : out[i].hook = "mapCesrFrame" /\ out[i].length < out[i].valueLength
    /\ \E i \in 1..Len(out) : out[i].hook = "mapCesrGroup"
    /\ last.start + last.length = Len(input)

\* the end offset of the frame at depth k of the stack (1 is the top, the last
\* is the root, which has no end: it reaches to the end of the input)
EndOf(k) == IF frames[k].hasEnd THEN frames[k].end ELSE Len(input)

\* C26: the frames are properly nested: every pushed frame ends no later than
\* the frame beneath it and no later than the input, so the end offsets do not
\* increase from the root to the top of the stack
C26_FramesAreNested ==
    \A k \in 1..(Len(frames) - 1) :
        /\ frames[k].hasEnd
        /\ EndOf(k) <= EndOf(k + 1)
        /\ EndOf(k) <= Len(input)

\* a frame pushed inside a frame that ends before the input does
C26_Witness ==
    /\ Len(frames) >= 3
    /\ EndOf(1) < EndOf(2)
    /\ EndOf(2) < Len(input)

\* the marker a group pushes: its context, << >> for none
MarkerOf(header) ==
    [protocol |-> IF HasContext(header) THEN GetContext(header) ELSE << >>]

\* the marker handed to a value that consumed m
Consumed(m) == [present |-> TRUE, protocol |-> m.protocol]

\* a step that yields hands the first marker of the active frame to the value,
\* and a group's own markers go on top of the ones that remain
ConsumesFirstMarker ==
    (Running /\ pc' = "yielded" /\ ActiveMarkers # << >>)
        => /\ last'.group = Consumed(Head(ActiveMarkers))
           /\ last'.hook = "mapCesrGroup"
                 => frames'[1].group
                      = Repeat(MarkerOf(last'.header), last'.header.count) \o Tail(ActiveMarkers)
           /\ last'.hook \in {"mapCesrLeaf", "mapJsonFrame"}
                 => frames'[1].group = Tail(ActiveMarkers)

\* the values i .. j were yielded on one frame and none of them is a frame
OnOneFrame(i, j) ==
    /\ j <= Len(out)
    /\ \A n \in i..j : out[n].hook # "mapCesrFrame" /\ out[n].depth = out[i].depth

\* the value i is a group of couples of count 1 and the value after it a
\* group of signatures: one marker of the couples remains under the markers
\* of the signatures
GroupInGroup(i) ==
    /\ i + 1 <= Len(out)
    /\ out[i].hook = "mapCesrGroup" /\ out[i].header.selector = Str(<<"-", "C">>)
    /\ out[i].header.count = 2
    /\ out[i + 1].hook = "mapCesrGroup" /\ out[i + 1].header.selector = Str(<<"-", "A">>)
    /\ out[i + 1].depth = out[i].depth

\* the values after a group in a group take the inner markers first
InnerMarkersFirst ==
    \A i \in 1..Len(out) :
        GroupInGroup(i)
            => /\ out[i + 1].group = Consumed(MarkerOf(out[i].header))
               /\ \A j \in (i + 2)..(i + 1 + out[i + 1].header.count) :
                      OnOneFrame(i, j) => out[j].group = Consumed(MarkerOf(out[i + 1].header))
               /\ OnOneFrame(i, i + 2 + out[i + 1].header.count)
                      => out[i + 2 + out[i + 1].header.count].group
                           = Consumed(MarkerOf(out[i].header))

\* C27: the markers of a frame are consumed last in, first out: the markers of
\* a group decoded while markers of an outer group remain on the frame are
\* consumed, with the group's context, by the values that follow, and the
\* outer markers only after them, one per value
C27_MarkersAreLifo == []InnerMarkersFirst /\ [][ConsumesFirstMarker]_vars

\* a group of two signatures was decoded while a marker of a group of couples
\* remained: the two signatures took the inner markers, the value after them
\* the outer one
C27_Witness ==
    \E i \in 1..Len(out) :
        /\ GroupInGroup(i)
        /\ out[i + 1].header.count = 2
        /\ OnOneFrame(i, i + 4)
        /\ out[i + 2].group.protocol = <<"indexer">>
        /\ out[i + 3].group.protocol = <<"indexer">>
        /\ out[i + 4].group = [present |-> TRUE, protocol |-> << >>]

\* the last n frames of the stack fs
Beneath(fs, n) == SubSeq(fs, Len(fs) - n + 1, Len(fs))

\* the frames under the active one
Enclosing == Tail(ActiveFrames)

\* a step leaves the frames under the active one as they are: the search pops
\* frames from the top only, a pushed frame has no markers, and a value takes
\* a marker from the active frame alone
KeepsEnclosingFrames ==
    Running
        => /\ ActiveFrames = Beneath(frames, Len(ActiveFrames))
           /\ Len(frames') >= Len(Enclosing)
           /\ Beneath(frames', Len(Enclosing)) = Enclosing
           /\ (pc' = "yielded" /\ last'.hook = "mapCesrFrame")
                 => /\ frames'[1].group = << >>
                    /\ Tail(frames') = PopGroup(ActiveFrames).frames
           /\ (pc' = "yielded" /\ ActiveMarkers = << >>) => ~last'.group.present

\* the value i is a frame and the value after it is the first one inside it
FirstInside(i) ==
    /\ i + 1 <= Len(out)
    /\ out[i].hook = "mapCesrFrame"
    /\ out[i + 1].depth = out[i].depth + 1

\* the first value inside a frame is handed no marker
NoMarkerInside == \A i \in 1..Len(out) : FirstInside(i) => ~out[i + 1].group.present

\* C28: the markers belong to the frame they were pushed on: the values of a
\* nested frame neither consume nor see the markers of the enclosing frames,
\* and when the nested frame is popped the enclosing frame holds the markers
\* it had when the nested frame was pushed
C28_MarkersStayOnTheirFrame == []NoMarkerInside /\ [][KeepsEnclosingFrames]_vars

\* a frame was pushed while the enclosing frame had a marker left, its values
\* were handed no marker, and the value after the frame took that marker
C28_Witness ==
    \E i \in 1..Len(out) : \E j \in (i + 2)..Len(out) :
        /\ FirstInside(i)
        /\ out[i].group.present
        /\ \A n \in (i + 1)..(j - 1) : out[n].depth > out[i].depth /\ ~out[n].group.present
        /\ out[j].depth = out[i].depth
        /\ out[j].group = [present |-> TRUE, protocol |-> << >>]
        /\ j = Len(out)
        /\ frames[1].group = << >>

\* the extraction of the step fails
ExtractionFails == Running /\ Len(ActiveSlice) > 0 /\ ~DueValue.ok

\* the step yields nothing, leaves the cursor at the value it could not extract,
\* pushes no frame and ends the generator with the error of the extraction
FailsWithoutEffect ==
    /\ pc' = "error"
    /\ err' = DueValue.err
    /\ out' = out /\ last' = last
    /\ start' = Cursor
    /\ Len(frames') = Len(ActiveFrames)
    /\ Tail(frames') = Tail(ActiveFrames)

\* C29: a step whose extraction fails yields no value, does not advance the
\* cursor, pushes no frame and no group and leaves the group stack of the
\* active frame as it was before the step; the generator ends with the error
C29_FailedStepChangesNothing ==
    [][ ExtractionFails => (FailsWithoutEffect /\ frames'[1].group = ActiveMarkers) ]_vars

\* the span followed by eight more characters
Padded(span) == span \o Str(<<"A", "A", "A", "A", "A", "A", "A", "A">>)

\* the span begins with a complete coded value: getCesrValue extracts a value
\* from the span followed by more characters, and the value lies in the span
BeginsWithValue(protocol, span) ==
    /\ GetCesrValue(protocol, Padded(span)).ok
    /\ Len(GetCesrValue(protocol, Padded(span)).value) <= Len(span)

\* the next step applies getCesrValue to a span that begins with a complete value
ValueDue ==
    /\ Running
    /\ Len(ActiveSlice) > 0
    /\ CurrentFrame(ActiveFrames).valueGetter = "getCesrValue"
    /\ BeginsWithValue(DueProtocol, ActiveSlice)

\* C30: getCesrValue decodes every span that begins with a complete coded
\* value no longer than the span, however short the span is: a span of one
\* complete code of four characters is decoded, not rejected
C30_DecodesShortSpans ==
    [][ ValueDue => (pc' = "yielded"
                       /\ last'.valueLength
                             = Len(GetCesrValue(DueProtocol, Padded(ActiveSlice)).value)) ]_vars

====
